---- MODULE Spec2Model ----
(***************************************************************************)
(* Model of the BNR RAG pipeline: RAGRetriever (src/src/retriever.py),     *)
(* RAGGenerator (src/src/generator.py), log_query                          *)
(* (src/src/audit_logger.py), RAGPipeline (src/src/rag_pipeline.py) and    *)
(* the loaders of src/src/ingestion.py.                                    *)
(*                                                                         *)
(* Specifications.  Spec: one thread drives a pipeline as main.py does.    *)
(* SpecRetriever: one thread calls retrieve and build_index in turn.       *)
(* SpecRebuild: retrieve steps interleaved with the steps of a rebuild.    *)
(* SpecConcurrent: the query calls of several threads interleaved.         *)
(* SpecGen: generate called directly.  SpecChunk: _chunk_words called      *)
(* directly.  SpecLoad: load_corpus run repeatedly on one directory.       *)
(* SpecChunkLoop: the while loop of _chunk_words pass by pass, for any     *)
(* size and overlap.  SpecEmbedding: a retriever given any embedding       *)
(* model, on files saved with any.  SpecPersist: the retriever and its     *)
(* two files over several runs, with writes that fail and a process that   *)
(* stops at any point.                                                     *)
(*                                                                         *)
(* Persistence.  _save is two steps, one per file.  In every specification *)
(* but SpecPersist both writes succeed and the process runs on.            *)
(*                                                                         *)
(* Abstractions.  Texts and embeddings are opaque identifiers; the local   *)
(* embedding model and the inner product of two normalised vectors are the *)
(* table RawScore (in units of 1e-5).  Similarities are integers in units  *)
(* of 1e-4, as produced by round(float(score), 4).  Answers are sequences  *)
(* of words.  The audit record keeps the fields the program derives from   *)
(* the result; timestamp, latency and the answer preview are left out.     *)
(***************************************************************************)
EXTENDS Integers, Sequences, FiniteSets, TLC

\* ---------------------------------------------------------------- bounds
MaxChunks   == 3      \* chunks in the largest corpus a build may load
MaxTopK     == 2      \* largest k / top_k a caller passes
MaxQueries  == 2      \* query calls started in one behaviour
MaxGenLen   == 3      \* longest chunk list passed directly to generate
NumCallers  == 2      \* caller threads
MaxWords    == 5      \* words of the longest text passed directly to _chunk_words
MaxSize     == 3      \* largest window size passed directly to _chunk_words
MaxPages    == 2      \* pages of the longest PDF in a corpus directory
MaxRows     == 2      \* rows of the longest CSV in a corpus directory
MaxLoads    == 2      \* runs of load_corpus on one directory
MaxKept     == 4      \* windows kept by a _chunk_words loop that is followed
MaxBack     == 3      \* lowest start (negated) of a _chunk_words loop that is followed

\* ------------------------------------------------------- program constants
FALLBACK_MESSAGE ==
    <<"The", "answer", "cannot", "be", "determined",
      "from", "the", "provided", "documents.">>

LLM_MODEL == "claude-haiku-4-5-20251001"

EMBEDDING_MODEL == "all-MiniLM-L6-v2"

\* the cutoff the evaluation of this system calls for (0.65), in 1e-4 units
SIMILARITY_CUTOFF == 6500

\* config.py: words per chunk, and words shared by consecutive chunks
CHUNK_SIZE == 600

CHUNK_OVERLAP == 100

\* _chunk_words keeps a window of more than this many characters
MIN_CHUNK_CHARS == 80

\* load_csv keeps a row text of more than this many characters
MIN_ROW_CHARS == 40

\* ------------------------------------------------------------ helper data
Min(a, b) == IF a <= b THEN a ELSE b

Range(s) == { s[i] : i \in DOMAIN s }

Callers == 1 .. NumCallers

Questions == { "q1", "q2" }

\* DocumentChunk(text, source_name, filename, page, chunk_index, doc_type)
DocumentChunk(t, s, f, p, ci, d) ==
    [ text |-> t, source_name |-> s, filename |-> f,
      page |-> p, chunk_index |-> ci, doc_type |-> d ]

\* the chunks load_corpus yields for the largest corpus, in load order
FullCorpus ==
    << DocumentChunk("t1", "FinScope", "finscope.pdf", 1, 0, "pdf"),
       DocumentChunk("t2", "FinScope", "finscope.pdf", 1, 1, "pdf"),
       DocumentChunk("t3", "Law",      "law.pdf",      1, 0, "pdf"),
       DocumentChunk("t4", "IMF",      "fas.csv",      0, 0, "csv") >>

\* what load_corpus may return: the directory holds the first n chunks
Corpora == { SubSeq(FullCorpus, 1, n) : n \in 0 .. Min(MaxChunks, Len(FullCorpus)) }

\* inner product of the normalised embeddings of question q and text t, 1e-5
RawScore(q, t) ==
    IF q = "q1"
    THEN CASE t = "t1" -> 67216
           [] t = "t2" -> 51236
           [] t = "t3" -> 67218
           [] OTHER    -> 51236
    ELSE CASE t = "t1" -> 57996
           [] t = "t2" -> 57996
           [] t = "t3" -> 51449
           [] OTHER    -> 55003

\* round(float(score), 4): 1e-5 units to the nearest 1e-4 unit
Round4(raw) == (raw + 5) \div 10

\* ------------------------------------------------------ retriever: types
\* RetrievedChunk(text, source_name, filename, page, doc_type, similarity)
RetrievedChunk(t, s, f, p, d, sim) ==
    [ text |-> t, source_name |-> s, filename |-> f,
      page |-> p, doc_type |-> d, similarity |-> sim ]

\* the metadata dict index_documents stores for chunk c
MetaOf(c) ==
    [ source_name |-> c.source_name, filename |-> c.filename,
      page |-> c.page, doc_type |-> c.doc_type ]

\* self._index: None, or an IndexFlatIP holding the vectors vecs (one
\* embedding per text, in insertion order)
NoIndex        == [ none |-> TRUE,  vecs |-> << >> ]
IndexFlatIP(v) == [ none |-> FALSE, vecs |-> v ]

\* faulty variant of IsEmpty: the guard never reports an empty index
IsEmptyNever(ix) == ix.none /\ ~ ix.none

\* RAGRetriever.is_empty
IsEmpty(ix) == ix.none \/ Len(ix.vecs) = 0

\* RAGRetriever.chunk_count
ChunkCount(ix) == IF ix.none THEN 0 ELSE Len(ix.vecs)

\* model.encode(texts): the local embedding of a text is named by the text
Encode(ts) == [ i \in DOMAIN ts |-> ts[i] ]

\* IndexFlatIP.search(q_emb, n): the possible answers, each a sequence of n
\* (score, idx) pairs, idx 0-based.  The first min(n, ntotal) entries are a
\* best-first selection of the stored vectors (the order among equal scores
\* is whatever the library's heap yields); the rest are padding with idx -1.
IsTopSelection(vecs, q, s) ==
    /\ \A i, j \in DOMAIN s : i # j => s[i] # s[j]
    /\ \A i, j \in DOMAIN s :
          i < j => RawScore(q, vecs[s[i] + 1]) >= RawScore(q, vecs[s[j] + 1])
    /\ \A i \in DOMAIN s : \A o \in 0 .. (Len(vecs) - 1) :
          o \notin Range(s) => RawScore(q, vecs[o + 1]) <= RawScore(q, vecs[s[i] + 1])

Search(vecs, q, n) ==
    LET m == Min(n, Len(vecs))
        tops == { s \in [ 1 .. m -> 0 .. (Len(vecs) - 1) ] : IsTopSelection(vecs, q, s) }
    IN  { [ i \in 1 .. n |->
              IF i <= m
              THEN [ score |-> RawScore(q, vecs[s[i] + 1]), idx |-> s[i] ]
              ELSE [ score |-> -100000, idx |-> -1 ] ] : s \in tops }

\* position a of the stored vectors comes before position b in the answer
\* of a build with the equal-score rule policy
Before(vecs, q, policy, a, b) ==
    \/ RawScore(q, vecs[a + 1]) > RawScore(q, vecs[b + 1])
    \/ /\ RawScore(q, vecs[a + 1]) = RawScore(q, vecs[b + 1])
       /\ IF policy = "lower_first" THEN a < b ELSE a > b

\* faulty variant of SearchBuild: equal scores come out in any order
SearchBuildAnyOrder(vecs, q, n, policy) == Search(vecs, q, n)

\* IndexFlatIP.search(q_emb, n) of one build: the scan and the heap of a
\* build are fixed code, so equal scores always come out by the same rule
SearchBuild(vecs, q, n, policy) ==
    { h \in Search(vecs, q, n) :
        /\ \A i, j \in DOMAIN h :
              (i < j /\ h[j].idx >= 0) => Before(vecs, q, policy, h[i].idx, h[j].idx)
        /\ \A i \in DOMAIN h : \A o \in 0 .. (Len(vecs) - 1) :
              (h[i].idx >= 0 /\ \A j \in DOMAIN h : h[j].idx # o)
                  => Before(vecs, q, policy, h[i].idx, o) }

\* inner products of a query vector with stored vectors of another model
\* (same dimension): numbers that say nothing about the texts
UnrelatedScores == << 8120, 1530 >>

\* IndexFlatIP.search(q_emb, n) when the stored vectors come from another
\* model of the same dimension: the two models fix the products, and the
\* texts do not; here the vector stored last has the best one, whatever the
\* query. n positions, best score first.
SearchAcross(vecs, n) ==
    { [ i \in 1 .. n |->
          IF i <= Len(vecs)
          THEN [ score |-> UnrelatedScores[IF i = 1 THEN 1 ELSE 2], idx |-> Len(vecs) - i ]
          ELSE [ score |-> -100000, idx |-> -1 ] ] }

\* ------------------------------------------------------ generator: values
\* what client.messages.create may answer: text and the two token counts
LLMResponses ==
    { [ text |-> FALLBACK_MESSAGE, input_tokens |-> 40, output_tokens |-> 12 ],
      [ text |-> <<"Grounded", "answer.">>, input_tokens |-> 40, output_tokens |-> 30 ],
      [ text |-> <<"The", "answer", "cannot", "be", "determined",
                   "precisely,", "but", "page", "3", "gives", "an", "estimate.">>,
        input_tokens |-> 40, output_tokens |-> 21 ] }

\* faulty variant of SourceOf: the page is taken one off
SourceOfNextPage(c) ==
    [ source_name |-> c.source_name, page |-> c.page + 1,
      doc_type |-> c.doc_type, similarity |-> c.similarity ]

\* the source dict generate builds for a chunk
SourceOf(c) ==
    [ source_name |-> c.source_name, page |-> c.page,
      doc_type |-> c.doc_type, similarity |-> c.similarity ]

CitationKey(x) == << x.source_name, x.page >>

\* faulty variant of DedupSources: the key of a chunk is never remembered
RECURSIVE DedupSourcesForgetful(_, _)
DedupSourcesForgetful(chunks, seen) ==
    IF chunks = << >> THEN << >>
    ELSE LET c == Head(chunks)
             key == CitationKey(c)
         IN  IF key \in seen
             THEN DedupSourcesForgetful(Tail(chunks), seen)
             ELSE << SourceOf(c) >> \o DedupSourcesForgetful(Tail(chunks), seen)

\* generate, lines 118-130: one source dict per (source_name, page) key, kept
\* at the first chunk that carries the key
RECURSIVE DedupSources(_, _)
DedupSources(chunks, seen) ==
    IF chunks = << >> THEN << >>
    ELSE LET c == Head(chunks)
             key == CitationKey(c)
         IN  IF key \in seen
             THEN DedupSources(Tail(chunks), seen)
             ELSE << SourceOf(c) >> \o DedupSources(Tail(chunks), seen \cup { key })

\* generate, lines 72-80: the result for an empty chunk list
FallbackResult ==
    [ answer |-> FALLBACK_MESSAGE, sources |-> << >>, context_used |-> << >>,
      model |-> LLM_MODEL, input_tokens |-> 0, output_tokens |-> 0 ]

\* generate, lines 116-139: the result built from the model's response
GeneratedResult(chunks, resp) ==
    [ answer |-> resp.text, sources |-> DedupSources(chunks, {}),
      context_used |-> chunks, model |-> LLM_MODEL,
      input_tokens |-> resp.input_tokens, output_tokens |-> resp.output_tokens ]

\* query, lines 91-93: the fields query adds to generate's result
QueryResult(res, q, chunks) ==
    [ answer |-> res.answer, sources |-> res.sources,
      context_used |-> res.context_used, model |-> res.model,
      input_tokens |-> res.input_tokens, output_tokens |-> res.output_tokens,
      question |-> q, num_chunks_retrieved |-> Len(chunks) ]

\* ---------------------------------------------------------- audit: values
IsPrefix(p, s) == Len(p) <= Len(s) /\ SubSeq(s, 1, Len(p)) = p

\* the literal log_query tests the answer against
FALLBACK_PREFIX == <<"The", "answer", "cannot", "be", "determined">>

\* log_query, lines 30-51: the record written for a result
AuditRecord(q, res) ==
    [ complete |-> TRUE,
      question |-> q,
      is_fallback |-> IsPrefix(FALLBACK_PREFIX, res.answer),
      sources_retrieved |->
          [ i \in DOMAIN res.sources |->
              [ source |-> res.sources[i].source_name,
                page |-> res.sources[i].page,
                similarity |-> res.sources[i].similarity ] ],
      num_chunks |-> res.num_chunks_retrieved,
      model |-> res.model,
      input_tokens |-> res.input_tokens,
      output_tokens |-> res.output_tokens ]

\* what a write cut short by an OSError leaves in the file: a piece of a
\* line with no newline, so the next append continues that line
AuditFragment(q) == [ complete |-> FALSE, question |-> q ]

\* ------------------------------------------------- operations as functions
\* retrieve, line 139: n = min(k, self.chunk_count)
ClampK(k, ix) == Min(k, ChunkCount(ix))

\* what the language-model call may do: answer, or fail with an APIError
APIError == [ error |-> "APIError" ]
LLMOutcomes == LLMResponses \cup { APIError }

\* faulty variant of GenerateOutcome: no early return for an empty chunk list
GenerateOutcomeNoEarlyReturn(chunks, llm) ==
    IF llm = APIError
    THEN [ kind |-> "raise", result |-> [ none |-> TRUE ], calls |-> 1 ]
    ELSE [ kind |-> "return", result |-> GeneratedResult(chunks, llm), calls |-> 1 ]

\* faulty variant of GenerateOutcome: an APIError is answered with the
\* fallback result
GenerateOutcomeSwallowsError(chunks, llm) ==
    IF chunks = << >>
    THEN [ kind |-> "return", result |-> FallbackResult, calls |-> 0 ]
    ELSE IF llm = APIError
         THEN [ kind |-> "return", result |-> FallbackResult, calls |-> 1 ]
         ELSE [ kind |-> "return", result |-> GeneratedResult(chunks, llm), calls |-> 1 ]

\* faulty variant of GenerateOutcome: a failed model call is made once more
\* before the error is raised
GenerateOutcomeRetries(chunks, llm) ==
    IF chunks = << >>
    THEN [ kind |-> "return", result |-> FallbackResult, calls |-> 0 ]
    ELSE IF llm = APIError
         THEN [ kind |-> "raise", result |-> [ none |-> TRUE ], calls |-> 2 ]
         ELSE [ kind |-> "return", result |-> GeneratedResult(chunks, llm), calls |-> 1 ]

\* generate, lines 72-139, given what the model call does when it is made:
\* kind is "return" or "raise", calls counts the model calls made
GenerateOutcome(chunks, llm) ==
    IF chunks = << >>
    THEN [ kind |-> "return", result |-> FallbackResult, calls |-> 0 ]
    ELSE IF llm = APIError
         THEN [ kind |-> "raise", result |-> [ none |-> TRUE ], calls |-> 1 ]
         ELSE [ kind |-> "return", result |-> GeneratedResult(chunks, llm), calls |-> 1 ]

\* what opening and writing the audit file may do
IOOutcomes == { "ok", "open_fails", "write_fails" }

\* faulty variant of AuditOutcome: the OSError is not caught
AuditOutcomeUncaught(lg, q, res, io) ==
    CASE io = "ok" ->
           [ log |-> Append(lg, AuditRecord(q, res)), warned |-> FALSE, raised |-> FALSE ]
      [] io = "open_fails" ->
           [ log |-> lg, warned |-> FALSE, raised |-> TRUE ]
      [] OTHER ->
           [ log |-> Append(lg, AuditFragment(q)), warned |-> FALSE, raised |-> TRUE ]

\* faulty variant of AuditOutcome: the file is opened for writing, not for
\* appending
AuditOutcomeTruncates(lg, q, res, io) ==
    CASE io = "ok" ->
           [ log |-> << AuditRecord(q, res) >>, warned |-> FALSE, raised |-> FALSE ]
      [] io = "open_fails" ->
           [ log |-> lg, warned |-> TRUE, raised |-> FALSE ]
      [] OTHER ->
           [ log |-> << AuditFragment(q) >>, warned |-> TRUE, raised |-> FALSE ]

\* faulty variant of AuditOutcome: the record is written at the place of the
\* last line instead of after it
AuditOutcomeOverwritesLast(lg, q, res, io) ==
    CASE io = "ok" ->
           [ log |-> Append(SubSeq(lg, 1, Len(lg) - 1), AuditRecord(q, res)),
             warned |-> FALSE, raised |-> FALSE ]
      [] io = "open_fails" ->
           [ log |-> lg, warned |-> TRUE, raised |-> FALSE ]
      [] OTHER ->
           [ log |-> Append(lg, AuditFragment(q)), warned |-> TRUE, raised |-> FALSE ]

\* faulty variant of AuditOutcome: the record is written twice
AuditOutcomeWritesTwice(lg, q, res, io) ==
    CASE io = "ok" ->
           [ log |-> Append(Append(lg, AuditRecord(q, res)), AuditRecord(q, res)),
             warned |-> FALSE, raised |-> FALSE ]
      [] io = "open_fails" ->
           [ log |-> lg, warned |-> TRUE, raised |-> FALSE ]
      [] OTHER ->
           [ log |-> Append(lg, AuditFragment(q)), warned |-> TRUE, raised |-> FALSE ]

\* log_query, lines 54-58, on the file content lg: the new content, whether
\* a warning is logged, and whether an exception leaves log_query
AuditOutcome(lg, q, res, io) ==
    CASE io = "ok" ->
           [ log |-> Append(lg, AuditRecord(q, res)), warned |-> FALSE, raised |-> FALSE ]
      [] io = "open_fails" ->
           [ log |-> lg, warned |-> TRUE, raised |-> FALSE ]
      [] OTHER ->
           [ log |-> Append(lg, AuditFragment(q)), warned |-> TRUE, raised |-> FALSE ]

\* ------------------------------------------------------------------ state
VARIABLES
    index,        \* RAGRetriever._index
    texts,        \* RAGRetriever._texts
    metadata,     \* RAGRetriever._metadata
    top_k,        \* RAGPipeline.top_k
    constructed,  \* RAGPipeline.__init__ has returned
    bld,          \* the thread running build_index: position and locals
    thr,          \* each caller thread: position and locals of its call
    log,          \* the lines of logs/audit.jsonl
    started,      \* number of query calls started
    published,    \* history: the last completely built (index, texts, metadata)
    ties,         \* the rule of the installed faiss build for equal scores
    ctor,         \* history: what RAGPipeline.__init__ was asked and did
    history,      \* the retrieve calls answered since the last build
    ing,          \* an ingestion call (src/src/ingestion.py): input and result
    persistent,   \* RAGRetriever._persistent
    embedding_model,  \* the model RAGRetriever._model was loaded from
    disk,         \* the files at _index_path and _meta_path
    origin        \* history: how self._index came about, and the model that
                  \* embedded its vectors

vars == << index, texts, metadata, top_k, constructed, bld, thr, log, started,
           published, ties, ctor, history, ing,
           persistent, embedding_model, disk, origin >>

NoResult == [ none |-> TRUE ]

IdleThread ==
    [ pc |-> "idle", op |-> "none", question |-> "", k |-> 0, n |-> 0,
      hits |-> << >>, pos |-> 0, meta |-> NoResult, chunks |-> << >>,
      result |-> NoResult, outcome |-> "none", error |-> "none",
      llm_calls |-> 0, llm |-> "none", io |-> "none", warned |-> FALSE,
      snaps |-> {}, log0 |-> << >>, again |-> FALSE ]

Snapshot(ix, ts, ms) == [ index |-> ix, texts |-> ts, metadata |-> ms ]

\* build_index is not running; old is the retriever state a running build
\* started from, indexing tells whether index_documents has been entered
IdleBuilder ==
    [ pc |-> "idle", chunks |-> << >>, emb |-> << >>, error |-> "none",
      indexing |-> FALSE, old |-> Snapshot(NoIndex, << >>, << >>) ]

NoCtor == [ called |-> FALSE, forced |-> FALSE, built |-> FALSE ]

IdleIngest == [ pc |-> "idle" ]

\* the retriever state index_documents leaves for the chunks cs
BuiltSnapshot(cs) ==
    Snapshot(IndexFlatIP(Encode([ i \in DOMAIN cs |-> cs[i].text ])),
             [ i \in DOMAIN cs |-> cs[i].text ],
             [ i \in DOMAIN cs |-> MetaOf(cs[i]) ])

\* RAGRetriever.__init__, lines 56-64: no index, or the index an earlier run
\* built and saved (the persistent mode, both files present)
Persisted ==
    { Snapshot(NoIndex, << >>, << >>) }
        \cup { BuiltSnapshot(c) : c \in Corpora \ { << >> } }

\* the models a RAGRetriever may be given as embedding_model: the configured
\* one, another with vectors of the same dimension, one of another dimension
EmbeddingModels == { EMBEDDING_MODEL, "all-MiniLM-L12-v2", "all-mpnet-base-v2" }

\* the dimension of the vectors of model m ("none": there are no vectors)
Dim(m) ==
    CASE m = "all-mpnet-base-v2" -> 768
      [] m = "none"              -> 0
      [] OTHER                   -> 384

\* a file: not there; there but cut short; or whole, with its data
NoFile  == [ exists |-> FALSE, whole |-> FALSE, data |-> << >> ]
CutFile == [ exists |-> TRUE,  whole |-> FALSE, data |-> << >> ]

\* what faiss.write_index leaves at _index_path
IndexFile(ix) == [ exists |-> TRUE, whole |-> TRUE, data |-> ix.vecs ]

\* what pickle.dump leaves at _meta_path
MetaFile(ts, ms) == [ exists |-> TRUE, whole |-> TRUE, data |-> << ts, ms >> ]

\* the db_path directory; by is history: the model that embedded the vectors
\* of the index file (the file itself does not name it)
NoDisk == [ index_file |-> NoFile, meta_file |-> NoFile, by |-> "none" ]

\* _save has run to its end on the retriever state s of a model m
SavedDisk(s, m) ==
    [ index_file |-> IndexFile(s.index), meta_file |-> MetaFile(s.texts, s.metadata),
      by |-> m ]

\* what an earlier run may have left: nothing, or a saved build of a model
Disks(models) ==
    { NoDisk } \cup { SavedDisk(s, m) : s \in Persisted \ { Snapshot(NoIndex, << >>, << >>) },
                                        m \in models }

\* RAGRetriever.__init__, lines 56-65, and _load: in persistent mode with
\* both files there, read_index and pickle.load give the retriever state
\* (each raises on a file cut short); otherwise the retriever starts empty
LoadOutcome(pers, d) ==
    IF pers /\ d.index_file.exists /\ d.meta_file.exists
    THEN IF d.index_file.whole /\ d.meta_file.whole
         THEN [ how |-> "loaded", model |-> d.by,
                snap |-> Snapshot(IndexFlatIP(d.index_file.data),
                                  d.meta_file.data[1], d.meta_file.data[2]) ]
         ELSE [ how |-> "load_failed", model |-> "none",
                snap |-> Snapshot(NoIndex, << >>, << >>) ]
    ELSE [ how |-> "empty", model |-> "none", snap |-> Snapshot(NoIndex, << >>, << >>) ]

\* the equal-score rules of the faiss builds considered: the stored vector
\* with the lower position first, or the one with the higher position first
TiePolicies == { "lower_first", "higher_first" }

\* RAGRetriever.__init__ has returned; RAGPipeline.__init__ has stored top_k
\* and is about to decide on its first build_index
InitCalls ==
    /\ top_k \in 1 .. MaxTopK
    /\ constructed = FALSE
    /\ bld = IdleBuilder
    /\ thr = [ t \in Callers |-> IdleThread ]
    /\ log = << >>
    /\ started = 0
    /\ ties \in TiePolicies
    /\ ctor = NoCtor
    /\ history = {}

\* RAGRetriever.__init__ has run with the files of disk in place
InitLoaded ==
    LET l == LoadOutcome(persistent, disk)
    IN  /\ index = l.snap.index
        /\ texts = l.snap.texts
        /\ metadata = l.snap.metadata
        /\ published = l.snap
        /\ origin = [ how |-> l.how, model |-> l.model ]

\* the retriever of the configured model, in ephemeral mode or in persistent
\* mode with what an earlier run of the same configuration saved
InitBase ==
    /\ InitCalls
    /\ persistent \in BOOLEAN
    /\ embedding_model = EMBEDDING_MODEL
    /\ disk \in (IF persistent THEN Disks({ EMBEDDING_MODEL }) ELSE { NoDisk })
    /\ InitLoaded

Init == InitBase /\ ing = IdleIngest

\* --------------------------------------------------- RAGPipeline.__init__
\* faulty variant of NeedsBuild: an empty index alone does not force a build
NeedsBuildOnlyForced(rebuild_index, ix) == rebuild_index /\ (ix.none \/ ~ ix.none)

\* __init__, line 47: if rebuild_index or self.retriever.is_empty
NeedsBuild(rebuild_index, ix) == rebuild_index \/ IsEmpty(ix)

\* __init__, lines 47-48: build the index, or return at once
Construct(rebuild_index) ==
    /\ ~ ctor.called
    /\ ~ constructed
    /\ bld.pc = "idle"
    /\ ctor' = [ called |-> TRUE, forced |-> rebuild_index, built |-> FALSE ]
    /\ IF NeedsBuild(rebuild_index, index)
       THEN /\ bld' = [ IdleBuilder EXCEPT !.pc = "called",
                                           !.old = Snapshot(index, texts, metadata) ]
            /\ UNCHANGED constructed
       ELSE /\ constructed' = TRUE
            /\ UNCHANGED bld
    /\ history' = {}
    /\ UNCHANGED << index, texts, metadata, top_k, thr, log, started, published, ties, persistent, embedding_model, disk, origin, ing >>

\* a call of build_index outside __init__
StartBuild ==
    /\ bld.pc = "idle"
    /\ bld' = [ IdleBuilder EXCEPT !.pc = "called",
                                   !.old = Snapshot(index, texts, metadata) ]
    /\ history' = {}
    /\ UNCHANGED << index, texts, metadata, top_k, constructed, thr, log, started, published, ties, persistent, embedding_model, disk, origin, ctor, ing >>

\* main.py, lines 79-80: the rebuild command of a constructed pipeline
Rebuild == constructed /\ StartBuild

\* ------------------------------------------------------------ build_index
\* faulty variant of NoChunks: an empty corpus is passed on
NoChunksNever(chunks) == chunks = << >> /\ chunks # << >>

\* build_index, line 56: if not chunks
NoChunks(chunks) == chunks = << >>

\* what self._model.encode may do in index_documents
EncodeOutcomes == { "ok", "raises" }

\* build_index up to the point where index_documents has the embeddings, or
\* has failed: the builder's position and locals
Loaded(b, corpus, enc) ==
    IF NoChunks(corpus)
    THEN [ b EXCEPT !.pc = "failed", !.error = "ValueError: No documents found" ]
    ELSE IF corpus = << >>
    THEN [ b EXCEPT !.pc = "failed", !.indexing = TRUE,
                    !.error = "ValueError: need at least one array" ]
    ELSE IF enc = "raises"
    THEN [ b EXCEPT !.pc = "failed", !.indexing = TRUE, !.chunks = corpus,
                    !.error = "encode" ]
    ELSE [ b EXCEPT !.pc = "encoded", !.indexing = TRUE, !.chunks = corpus,
                    !.emb = Encode([ i \in DOMAIN corpus |-> corpus[i].text ]) ]

\* faulty variant of BuildLoad: the old index is dropped before the corpus
\* is loaded
BuildLoadDropsFirst(corpus, enc) ==
    /\ bld.pc = "called"
    /\ bld' = Loaded(bld, corpus, enc)
    /\ index' = NoIndex
    /\ texts' = << >>
    /\ metadata' = << >>
    /\ UNCHANGED << top_k, constructed, thr, log, started, published, ties, persistent, embedding_model, disk, origin, ctor, history, ing >>

\* build_index, lines 54-60, and index_documents, lines 100-112: load the
\* corpus; no chunks raises ValueError; otherwise index_documents encodes
\* every text (given no text, np.vstack raises ValueError), and an exception
\* of encode leaves index_documents and build_index
BuildLoad(corpus, enc) ==
    /\ bld.pc = "called"
    /\ bld' = Loaded(bld, corpus, enc)
    /\ UNCHANGED << index, texts, metadata, top_k, constructed, thr, log, started, published, ties, persistent, embedding_model, disk, origin, ctor, history, ing >>

\* faulty variant of NewIndex: an index that exists is kept and added to
NewIndexKeepsOld(old) == IF old.none THEN IndexFlatIP(<< >>) ELSE old

\* index_documents, line 115: a new, empty IndexFlatIP replaces the old one
NewIndex(old) == IndexFlatIP(<< >>)

\* index_documents, line 115: self._index = faiss.IndexFlatIP(dim)
IndexCreate ==
    /\ bld.pc = "encoded"
    /\ index' = NewIndex(index)
    /\ origin' = [ how |-> "built", model |-> embedding_model ]
    /\ bld' = [ bld EXCEPT !.pc = "created" ]
    /\ UNCHANGED << texts, metadata, top_k, constructed, thr, log, started, published, ties, persistent, embedding_model, disk, ctor, history, ing >>

\* faulty variant of IndexAdd: the vectors are added last first
IndexAddReversed ==
    /\ bld.pc = "created"
    /\ index' = IndexFlatIP(index.vecs
                    \o [ i \in DOMAIN bld.emb |-> bld.emb[Len(bld.emb) + 1 - i] ])
    /\ bld' = [ bld EXCEPT !.pc = "added" ]
    /\ UNCHANGED << texts, metadata, top_k, constructed, thr, log, started, published, ties, persistent, embedding_model, disk, origin, ctor, history, ing >>

\* index_documents, line 116: self._index.add(embeddings)
IndexAdd ==
    /\ bld.pc = "created"
    /\ index' = IndexFlatIP(index.vecs \o bld.emb)
    /\ bld' = [ bld EXCEPT !.pc = "added" ]
    /\ UNCHANGED << texts, metadata, top_k, constructed, thr, log, started, published, ties, persistent, embedding_model, disk, origin, ctor, history, ing >>

\* index_documents, line 118: self._texts = texts
SetTexts ==
    /\ bld.pc = "added"
    /\ texts' = [ i \in DOMAIN bld.chunks |-> bld.chunks[i].text ]
    /\ bld' = [ bld EXCEPT !.pc = "texts" ]
    /\ UNCHANGED << index, metadata, top_k, constructed, thr, log, started, published, ties, persistent, embedding_model, disk, origin, ctor, history, ing >>

\* index_documents, lines 119-127: self._metadata = [...]
SetMetadata ==
    /\ bld.pc = "texts"
    /\ metadata' = [ i \in DOMAIN bld.chunks |-> MetaOf(bld.chunks[i]) ]
    /\ bld' = [ bld EXCEPT !.pc = "meta", !.emb = << >> ]
    /\ published' = Snapshot(index, texts, metadata')
    /\ thr' = [ t \in Callers |->
                  IF thr[t].pc \in { "idle", "done" } THEN thr[t]
                  ELSE [ thr[t] EXCEPT !.snaps = @ \cup { published' } ] ]
    /\ UNCHANGED << index, texts, top_k, constructed, log, started, ties, persistent, embedding_model, disk, origin, ctor, history, ing >>

\* _save, lines 77-78, in ephemeral mode: nothing is written; then the
\* return of index_documents and build_index (and of RAGPipeline.__init__
\* when this is its build)
SaveSkip ==
    /\ bld.pc = "meta"
    /\ ~ persistent \/ index.none
    /\ bld' = [ bld EXCEPT !.pc = "done" ]
    /\ constructed' = (constructed \/ ctor.called)
    /\ ctor' = [ ctor EXCEPT !.built = @ \/ (ctor.called /\ ~ constructed) ]
    /\ UNCHANGED << index, texts, metadata, top_k, thr, log, started, published, ties, persistent, embedding_model, disk, origin, history, ing >>

\* what a write to a file of db_path may do
WriteOutcomes == { "ok", "fails" }

\* _save, lines 79-80, in persistent mode: faiss.write_index(self._index);
\* a write that fails leaves the file cut short, and its exception leaves
\* index_documents and build_index
SaveIndexFile(io) ==
    /\ bld.pc = "meta"
    /\ persistent /\ ~ index.none
    /\ IF io = "ok"
       THEN /\ disk' = [ disk EXCEPT !.index_file = IndexFile(index), !.by = origin.model ]
            /\ bld' = [ bld EXCEPT !.pc = "index_saved" ]
       ELSE /\ disk' = [ disk EXCEPT !.index_file = CutFile, !.by = origin.model ]
            /\ bld' = [ bld EXCEPT !.pc = "failed", !.error = "write_index" ]
    /\ UNCHANGED << index, texts, metadata, top_k, constructed, thr, log, started, published, ties, persistent, embedding_model, origin, ctor, history, ing >>

\* _save, lines 81-82: open(self._meta_path, "wb") empties the file and
\* pickle.dump fills it; a write that fails leaves it cut short.  Then the
\* return of index_documents and build_index (and of RAGPipeline.__init__
\* when this is its build)
SaveMetaFile(io) ==
    /\ bld.pc = "index_saved"
    /\ IF io = "ok"
       THEN /\ disk' = [ disk EXCEPT !.meta_file = MetaFile(texts, metadata) ]
            /\ bld' = [ bld EXCEPT !.pc = "done" ]
            /\ constructed' = (constructed \/ ctor.called)
            /\ ctor' = [ ctor EXCEPT !.built = @ \/ (ctor.called /\ ~ constructed) ]
       ELSE /\ disk' = [ disk EXCEPT !.meta_file = CutFile ]
            /\ bld' = [ bld EXCEPT !.pc = "failed", !.error = "OSError" ]
            /\ UNCHANGED << constructed, ctor >>
    /\ UNCHANGED << index, texts, metadata, top_k, thr, log, started, published, ties, persistent, embedding_model, origin, history, ing >>

\* the caller of build_index goes on
BuildReturn ==
    /\ bld.pc \in { "done", "failed" }
    /\ bld' = IdleBuilder
    /\ ctor' = IF constructed THEN ctor ELSE NoCtor
    /\ UNCHANGED << index, texts, metadata, top_k, constructed, thr, log, started, published, ties, persistent, embedding_model, disk, origin, history, ing >>

\* ------------------------------------------------------------ call entries
\* a direct call retriever.retrieve(q, k)
StartRetrieve(t, q, k) ==
    /\ thr[t].pc = "idle"
    /\ thr' = [ thr EXCEPT ![t] =
                  [ IdleThread EXCEPT !.pc = "r_empty", !.op = "retrieve",
                                      !.question = q, !.k = k,
                                      !.snaps = { published },
                                      !.again = (\E a \in history :
                                                    a.question = q /\ a.k = k) ] ]
    /\ UNCHANGED << index, texts, metadata, top_k, constructed, bld, log, started, published, ties, persistent, embedding_model, disk, origin, ctor, history, ing >>

\* pipeline.query(q), lines 82-85: retrieve(question, k=self.top_k)
StartQuery(t, q) ==
    /\ thr[t].pc = "idle"
    /\ constructed
    /\ started < MaxQueries
    /\ started' = started + 1
    /\ thr' = [ thr EXCEPT ![t] =
                  [ IdleThread EXCEPT !.pc = "r_empty", !.op = "query",
                                      !.question = q, !.k = top_k,
                                      !.snaps = { published }, !.log0 = log ] ]
    /\ UNCHANGED << index, texts, metadata, top_k, constructed, bld, log, published, ties, persistent, embedding_model, disk, origin, ctor, history, ing >>

\* a direct call generator.generate(q, chunks)
StartGenerate(t, q, chunks) ==
    /\ thr[t].pc = "idle"
    /\ thr' = [ thr EXCEPT ![t] =
                  [ IdleThread EXCEPT !.pc = "g_gen", !.op = "generate",
                                      !.question = q, !.chunks = chunks ] ]
    /\ UNCHANGED << index, texts, metadata, top_k, constructed, bld, log, started, published, ties, persistent, embedding_model, disk, origin, ctor, history, ing >>

\* ---------------------------------------------------------------- retrieve
\* an exception leaves the call
Raised(r, err) ==
    [ r EXCEPT !.pc = "done", !.outcome = "raised", !.error = err,
               !.n = 0, !.hits = << >>, !.pos = 0, !.meta = NoResult,
               !.chunks = << >>, !.result = NoResult ]

\* retrieve returns cs: to the caller, or to query, which goes on to generate
Retrieved(r, cs) ==
    IF r.op = "retrieve"
    THEN [ r EXCEPT !.pc = "done", !.outcome = "returned", !.chunks = cs,
                    !.n = 0, !.hits = << >>, !.pos = 0, !.meta = NoResult ]
    ELSE [ r EXCEPT !.pc = "g_gen", !.chunks = cs,
                    !.n = 0, !.hits = << >>, !.pos = 0, !.meta = NoResult ]

\* history: the answer of a direct retrieve call that has just returned,
\* kept while no build_index is running
Answered(r) ==
    IF r.pc = "done" /\ r.op = "retrieve" /\ r.outcome = "returned" /\ bld.pc = "idle"
    THEN { [ question |-> r.question, k |-> r.k, chunks |-> r.chunks ] }
    ELSE {}

\* retrieve, lines 136-137: if self.is_empty: return []
RetrieveIsEmpty(t) ==
    /\ thr[t].pc = "r_empty"
    /\ thr' = [ thr EXCEPT ![t] =
                  IF IsEmpty(index) THEN Retrieved(@, << >>)
                  ELSE [ @ EXCEPT !.pc = "r_count" ] ]
    /\ history' = history \cup Answered(thr'[t])
    /\ UNCHANGED << index, texts, metadata, top_k, constructed, bld, log, started, published, ties, persistent, embedding_model, disk, origin, ctor, ing >>

\* retrieve, line 139: n = min(k, self.chunk_count)
RetrieveCount(t) ==
    /\ thr[t].pc = "r_count"
    /\ thr' = [ thr EXCEPT ![t] =
                  [ @ EXCEPT !.pc = "r_search", !.n = ClampK(thr[t].k, index) ] ]
    /\ UNCHANGED << index, texts, metadata, top_k, constructed, bld, log, started, published, ties, persistent, embedding_model, disk, origin, ctor, history, ing >>

\* IndexFlatIP.search(q_emb, n) for the query vector of model own on stored
\* vectors of model stored (of the same dimension)
SearchWith(vecs, q, n, policy, stored, own) ==
    IF stored = own THEN SearchBuild(vecs, q, n, policy) ELSE SearchAcross(vecs, n)

\* retrieve, lines 141-144: embed the query and search the index; a None
\* index has no search, and the search refuses a query vector of another
\* dimension than the index, and n = 0
RetrieveSearch(t) ==
    /\ thr[t].pc = "r_search"
    /\ IF index.none
       THEN thr' = [ thr EXCEPT ![t] = Raised(@, "AttributeError") ]
       ELSE IF Dim(embedding_model) # Dim(origin.model) \/ thr[t].n <= 0
       THEN thr' = [ thr EXCEPT ![t] = Raised(@, "AssertionError") ]
       ELSE \E h \in SearchWith(index.vecs, thr[t].question, thr[t].n, ties,
                                 origin.model, embedding_model) :
               thr' = [ thr EXCEPT ![t] = [ @ EXCEPT !.pc = "r_meta", !.hits = h, !.pos = 1 ] ]
    /\ UNCHANGED << index, texts, metadata, top_k, constructed, bld, log, started, published, ties, persistent, embedding_model, disk, origin, ctor, history, ing >>

\* retrieve, lines 147-150 and 160: the loop head; skip idx < 0; read
\* self._metadata[idx]; after the last pair return the results
RetrieveMeta(t) ==
    /\ thr[t].pc = "r_meta"
    /\ LET r == thr[t]
       IN  thr' = [ thr EXCEPT ![t] =
                IF r.pos > Len(r.hits) THEN Retrieved(r, r.chunks)
                ELSE IF r.hits[r.pos].idx < 0 THEN [ r EXCEPT !.pos = @ + 1 ]
                ELSE IF r.hits[r.pos].idx >= Len(metadata) THEN Raised(r, "IndexError")
                ELSE [ r EXCEPT !.pc = "r_text", !.meta = metadata[r.hits[r.pos].idx + 1] ] ]
    /\ history' = history \cup Answered(thr'[t])
    /\ UNCHANGED << index, texts, metadata, top_k, constructed, bld, log, started, published, ties, persistent, embedding_model, disk, origin, ctor, ing >>

\* faulty variant of RetrieveText: the text is taken out of the list (pop)
RetrieveTextPops(t) ==
    /\ thr[t].pc = "r_text"
    /\ LET r == thr[t]
           h == r.hits[r.pos]
       IN  thr' = [ thr EXCEPT ![t] =
                IF h.idx >= Len(texts) THEN Raised(r, "IndexError")
                ELSE [ r EXCEPT !.pc = "r_meta", !.pos = @ + 1, !.meta = NoResult,
                                !.chunks = Append(@,
                                    RetrievedChunk(texts[h.idx + 1], r.meta.source_name,
                                                   r.meta.filename, r.meta.page,
                                                   r.meta.doc_type, Round4(h.score))) ] ]
    /\ texts' = IF thr[t].hits[thr[t].pos].idx >= Len(texts) THEN texts
                ELSE [ i \in 1 .. (Len(texts) - 1) |->
                         IF i <= thr[t].hits[thr[t].pos].idx THEN texts[i] ELSE texts[i + 1] ]
    /\ UNCHANGED << index, metadata, top_k, constructed, bld, log, started, published, ties, persistent, embedding_model, disk, origin, ctor, history, ing >>

\* retrieve, lines 151-158: read self._texts[idx], append the RetrievedChunk
RetrieveText(t) ==
    /\ thr[t].pc = "r_text"
    /\ LET r == thr[t]
           h == r.hits[r.pos]
       IN  thr' = [ thr EXCEPT ![t] =
                IF h.idx >= Len(texts) THEN Raised(r, "IndexError")
                ELSE [ r EXCEPT !.pc = "r_meta", !.pos = @ + 1, !.meta = NoResult,
                                !.chunks = Append(@,
                                    RetrievedChunk(texts[h.idx + 1], r.meta.source_name,
                                                   r.meta.filename, r.meta.page,
                                                   r.meta.doc_type, Round4(h.score))) ] ]
    /\ UNCHANGED << index, texts, metadata, top_k, constructed, bld, log, started, published, ties, persistent, embedding_model, disk, origin, ctor, history, ing >>

\* ---------------------------------------------------------------- generate
\* generate, lines 72-139; for query, lines 88-93 follow on a return, and the
\* exception leaves query on a raise
Generate(t) ==
    /\ thr[t].pc = "g_gen"
    /\ \E llm \in LLMOutcomes :
         LET r == thr[t]
             out == GenerateOutcome(r.chunks, llm)
             seen == IF out.calls = 0 THEN "none"
                     ELSE IF llm = APIError THEN "failed" ELSE "ok"
         IN  thr' = [ thr EXCEPT ![t] =
                IF out.kind = "raise"
                THEN [ Raised(r, "APIError") EXCEPT !.chunks = r.chunks,
                                                    !.llm_calls = r.llm_calls + out.calls,
                                                    !.llm = seen ]
                ELSE IF r.op = "generate"
                THEN [ r EXCEPT !.pc = "done", !.outcome = "returned",
                                !.result = out.result,
                                !.llm_calls = @ + out.calls, !.llm = seen ]
                ELSE [ r EXCEPT !.pc = "q_audit",
                                !.result = QueryResult(out.result, r.question, r.chunks),
                                !.llm_calls = @ + out.calls, !.llm = seen ] ]
    /\ UNCHANGED << index, texts, metadata, top_k, constructed, bld, log, started, published, ties, persistent, embedding_model, disk, origin, ctor, history, ing >>

\* ------------------------------------------------------------------- audit
\* query, lines 96-98: log_query(question, result, latency_ms); return result
Audit(t) ==
    /\ thr[t].pc = "q_audit"
    /\ \E io \in IOOutcomes :
         LET r == thr[t]
             out == AuditOutcome(log, r.question, r.result, io)
         IN  /\ log' = out.log
             /\ thr' = [ thr EXCEPT ![t] =
                    IF out.raised
                    THEN [ Raised(r, "OSError") EXCEPT !.chunks = r.chunks, !.io = io ]
                    ELSE [ r EXCEPT !.pc = "done", !.outcome = "returned",
                                    !.warned = out.warned, !.io = io ] ]
    /\ UNCHANGED << index, texts, metadata, top_k, constructed, bld, started, published, ties, persistent, embedding_model, disk, origin, ctor, history, ing >>

\* the caller takes the outcome of its call and is free to call again
Return(t) ==
    /\ thr[t].pc = "done"
    /\ thr' = [ thr EXCEPT ![t] = IdleThread ]
    /\ UNCHANGED << index, texts, metadata, top_k, constructed, bld, log, started, published, ties, persistent, embedding_model, disk, origin, ctor, history, ing >>

\* ---------------------------------------------------------- specifications
\* the chunk lists a direct caller of generate passes: retrieved chunks of
\* the corpus, in any order, repeats included
RetrievedOf(q, c) ==
    RetrievedChunk(c.text, c.source_name, c.filename, c.page, c.doc_type,
                   Round4(RawScore(q, c.text)))

RetrievedUniverse ==
    { RetrievedOf(q, FullCorpus[i]) :
        q \in Questions, i \in 1 .. Min(MaxChunks, Len(FullCorpus)) }

GenInputs ==
    UNION { [ 1 .. n -> RetrievedUniverse ] : n \in 0 .. MaxGenLen }

\* The pipeline driven by one thread, as main.py drives it: the constructor's
\* build, then queries and rebuilds, one call at a time.
Next ==
    \/ \E rebuild_index \in BOOLEAN : Construct(rebuild_index)
    \/ thr[1].pc = "idle" /\ Rebuild
    \/ \E c \in Corpora, enc \in EncodeOutcomes : BuildLoad(c, enc)
    \/ IndexCreate
    \/ IndexAdd
    \/ SetTexts
    \/ SetMetadata
    \/ SaveSkip
    \/ SaveIndexFile("ok")
    \/ SaveMetaFile("ok")
    \/ BuildReturn
    \/ \E q \in Questions : bld.pc = "idle" /\ StartQuery(1, q)
    \/ RetrieveIsEmpty(1)
    \/ RetrieveCount(1)
    \/ RetrieveSearch(1)
    \/ RetrieveMeta(1)
    \/ RetrieveText(1)
    \/ Generate(1)
    \/ Audit(1)
    \/ Return(1)

Spec == Init /\ [][Next]_vars

\* The retriever used directly by one thread: builds and retrieve calls, one
\* call at a time.
NextRetriever ==
    \/ thr[1].pc = "idle" /\ StartBuild
    \/ \E c \in Corpora, enc \in EncodeOutcomes : BuildLoad(c, enc)
    \/ IndexCreate
    \/ IndexAdd
    \/ SetTexts
    \/ SetMetadata
    \/ SaveSkip
    \/ SaveIndexFile("ok")
    \/ SaveMetaFile("ok")
    \/ BuildReturn
    \/ \E q \in Questions, k \in 1 .. MaxTopK :
          bld.pc = "idle" /\ StartRetrieve(1, q, k)
    \/ RetrieveIsEmpty(1)
    \/ RetrieveCount(1)
    \/ RetrieveSearch(1)
    \/ RetrieveMeta(1)
    \/ RetrieveText(1)
    \/ Return(1)

SpecRetriever == Init /\ [][NextRetriever]_vars

\* The retriever with a rebuild running in one thread while another thread
\* calls retrieve: every interleaving of their steps.
NextRebuild ==
    \/ StartBuild
    \/ \E c \in Corpora, enc \in EncodeOutcomes : BuildLoad(c, enc)
    \/ IndexCreate
    \/ IndexAdd
    \/ SetTexts
    \/ SetMetadata
    \/ SaveSkip
    \/ SaveIndexFile("ok")
    \/ SaveMetaFile("ok")
    \/ BuildReturn
    \/ \E q \in Questions, k \in 1 .. MaxTopK : StartRetrieve(1, q, k)
    \/ RetrieveIsEmpty(1)
    \/ RetrieveCount(1)
    \/ RetrieveSearch(1)
    \/ RetrieveMeta(1)
    \/ RetrieveText(1)
    \/ Return(1)

SpecRebuild == Init /\ [][NextRebuild]_vars

\* The generator called directly with every chunk list of GenInputs.
NextGen ==
    \/ thr[1].pc = "idle" /\ \E q \in Questions, cs \in GenInputs : StartGenerate(1, q, cs)
    \/ Generate(1)
    \/ Return(1)

SpecGen == Init /\ [][NextGen]_vars

\* One constructed pipeline shared by the caller threads (app.py, lines
\* 74-81 and 185): their query calls run at the same time, step by step in
\* any order; no build_index runs while a query is under way.
NextConcurrent ==
    \/ \E rebuild_index \in BOOLEAN : Construct(rebuild_index)
    \/ \E c \in Corpora, enc \in EncodeOutcomes : BuildLoad(c, enc)
    \/ IndexCreate
    \/ IndexAdd
    \/ SetTexts
    \/ SetMetadata
    \/ SaveSkip
    \/ SaveIndexFile("ok")
    \/ SaveMetaFile("ok")
    \/ BuildReturn
    \/ \E t \in Callers : \E q \in Questions : bld.pc = "idle" /\ StartQuery(t, q)
    \/ \E t \in Callers : RetrieveIsEmpty(t)
    \/ \E t \in Callers : RetrieveCount(t)
    \/ \E t \in Callers : RetrieveSearch(t)
    \/ \E t \in Callers : RetrieveMeta(t)
    \/ \E t \in Callers : RetrieveText(t)
    \/ \E t \in Callers : Generate(t)
    \/ \E t \in Callers : Audit(t)
    \/ \E t \in Callers : Return(t)

SpecConcurrent == Init /\ [][NextConcurrent]_vars

\* A retriever given any of the models, in ephemeral mode or on files that a
\* run with any of the models saved: builds and retrieve calls of one thread.
InitEmbedding ==
    /\ InitCalls
    /\ persistent \in BOOLEAN
    /\ embedding_model \in EmbeddingModels
    /\ disk \in (IF persistent THEN Disks(EmbeddingModels) ELSE { NoDisk })
    /\ InitLoaded
    /\ ing = IdleIngest

SpecEmbedding == InitEmbedding /\ [][NextRetriever]_vars

\* the process stops, wherever it is, and a new process constructs a
\* RAGRetriever (RAGRetriever.__init__, lines 56-65) on the files it finds
NewRetriever ==
    /\ LET l == LoadOutcome(persistent, disk)
       IN  /\ index' = l.snap.index
           /\ texts' = l.snap.texts
           /\ metadata' = l.snap.metadata
           /\ published' = l.snap
           /\ origin' = [ how |-> l.how, model |-> l.model ]
    /\ bld' = IdleBuilder
    /\ thr' = [ t \in Callers |-> IdleThread ]
    /\ history' = {}
    /\ UNCHANGED << top_k, constructed, log, started, ties, persistent, embedding_model, disk, ctor, ing >>

\* a RAGRetriever object exists (its constructor did not raise)
HasRetriever == origin.how # "load_failed"

\* The retriever and its files over several runs of the program: builds and
\* retrieve calls of one thread, writes of _save that may fail, and a stop
\* of the process at any point followed by a new start.
NextPersist ==
    \/ NewRetriever
    \/ thr[1].pc = "idle" /\ HasRetriever /\ StartBuild
    \/ \E c \in Corpora, enc \in EncodeOutcomes : BuildLoad(c, enc)
    \/ IndexCreate
    \/ IndexAdd
    \/ SetTexts
    \/ SetMetadata
    \/ SaveSkip
    \/ \E io \in WriteOutcomes : SaveIndexFile(io)
    \/ \E io \in WriteOutcomes : SaveMetaFile(io)
    \/ BuildReturn
    \/ \E q \in Questions, k \in 1 .. MaxTopK :
          bld.pc = "idle" /\ HasRetriever /\ StartRetrieve(1, q, k)
    \/ RetrieveIsEmpty(1)
    \/ RetrieveCount(1)
    \/ RetrieveSearch(1)
    \/ RetrieveMeta(1)
    \/ RetrieveText(1)
    \/ Return(1)

\* the configured model, either mode, and what an earlier run saved (in
\* ephemeral mode the files of an earlier persistent run may lie there)
InitPersist ==
    /\ InitCalls
    /\ persistent \in BOOLEAN
    /\ embedding_model = EMBEDDING_MODEL
    /\ disk \in Disks({ EMBEDDING_MODEL })
    /\ InitLoaded
    /\ ing = IdleIngest

SpecPersist == InitPersist /\ [][NextPersist]_vars

\* ---------------------------------------------------------------- ingestion
\* Texts are strings; a text handed to _chunk_words is given by its words
\* (the result of text.split()).

\* " ".join(words)
RECURSIVE Join(_)
Join(ws) ==
    IF ws = << >> THEN ""
    ELSE IF Len(ws) = 1 THEN ws[1]
    ELSE LET h == Len(ws) \div 2
         IN  Join(SubSeq(ws, 1, h)) \o " " \o Join(SubSeq(ws, h + 1, Len(ws)))

\* faulty variant of ChunkWordsFrom: the next window starts where this one
\* ended (no overlap)
RECURSIVE ChunkWordsFromNoOverlap(_, _, _, _)
ChunkWordsFromNoOverlap(words, size, overlap, start) ==
    IF start >= Len(words) THEN << >>
    ELSE LET end   == Min(start + size, Len(words))
             chunk == Join(SubSeq(words, start + 1, end))
             kept  == IF Len(chunk) > MIN_CHUNK_CHARS THEN << chunk >> ELSE << >>
         IN  IF end = Len(words) THEN kept
             ELSE kept \o ChunkWordsFromNoOverlap(words, size, overlap, start + size)

\* _chunk_words, lines 61-68: the while loop from the window at start
RECURSIVE ChunkWordsFrom(_, _, _, _)
ChunkWordsFrom(words, size, overlap, start) ==
    IF start >= Len(words) THEN << >>
    ELSE LET end   == Min(start + size, Len(words))
             chunk == Join(SubSeq(words, start + 1, end))
             kept  == IF Len(chunk) > MIN_CHUNK_CHARS THEN << chunk >> ELSE << >>
         IN  IF end = Len(words) THEN kept
             ELSE kept \o ChunkWordsFrom(words, size, overlap, start + size - overlap)

\* _chunk_words(text, size, overlap), lines 57-69
ChunkWords(words, size, overlap) ==
    IF words = << >> THEN << >> ELSE ChunkWordsFrom(words, size, overlap, 0)

\* words of 26, 27 and 40 characters: three of the first join to 80
\* characters, three of the second to 83, two of the third to 81
WordPool ==
    { "abcdefghijklmnopqrstuvwxyz",
      "financial-inclusion-policy:",
      "national-payment-system-oversight-report" }

\* the calls _chunk_words(text, size, overlap) considered, size > overlap
ChunkInputs ==
    { [ pc |-> "chunk_call", words |-> x[1], size |-> x[2], overlap |-> x[3] ] :
        x \in { y \in (UNION { [ 1 .. n -> WordPool ] : n \in 0 .. MaxWords })
                          \X (1 .. MaxSize) \X (0 .. (MaxSize - 1)) : y[3] < y[2] } }

\* _chunk_words runs and returns
ChunkWordsCall ==
    /\ ing.pc = "chunk_call"
    /\ ing' = [ pc |-> "chunk_done", words |-> ing.words, size |-> ing.size,
                overlap |-> ing.overlap,
                out |-> ChunkWords(ing.words, ing.size, ing.overlap) ]
    /\ UNCHANGED << index, texts, metadata, top_k, constructed, bld, thr, log, started, published, ties, persistent, embedding_model, disk, origin, ctor, history >>

\* the state around an ingestion call: a retriever with nothing loaded
InitIngest ==
    /\ InitBase
    /\ ~ persistent
    /\ index = NoIndex
    /\ top_k = 1
    /\ ties = "lower_first"

NextChunk == ChunkWordsCall

InitChunk == InitIngest /\ ing \in ChunkInputs

SpecChunk == InitChunk /\ [][NextChunk]_vars

\* words[a:b]: a negative bound counts from the end, and every bound is
\* clipped to the list
PySlice(words, a, b) ==
    LET n  == Len(words)
        lo == IF a < 0 THEN (IF n + a < 0 THEN 0 ELSE n + a) ELSE Min(a, n)
        hi == IF b < 0 THEN (IF n + b < 0 THEN 0 ELSE n + b) ELSE Min(b, n)
    IN  SubSeq(words, lo + 1, hi)

\* the calls _chunk_words(text, size, overlap) considered, size >= 1 and
\* overlap >= 0, the overlap below, at or above the size; odd is history:
\* the parity of the passes taken, which tells a pass that changes nothing
\* of the program's state from no pass at all
ChunkLoopInputs ==
    { [ pc |-> "chunk_entry", words |-> x[1], size |-> x[2], overlap |-> x[3],
        start |-> 0, chunks |-> << >>, odd |-> FALSE ] :
        x \in (UNION { [ 1 .. n -> WordPool ] : n \in 0 .. MaxWords })
                  \X (1 .. MaxSize) \X (0 .. MaxSize) }

\* _chunk_words, lines 57-60: no words, return []; else start = 0
ChunkWordsEnter ==
    /\ ing.pc = "chunk_entry"
    /\ ing' = [ ing EXCEPT !.pc = IF ing.words = << >> THEN "chunk_returned"
                                  ELSE "chunk_loop" ]
    /\ UNCHANGED << index, texts, metadata, top_k, constructed, bld, thr, log, started, published, ties, persistent, embedding_model, disk, origin, ctor, history >>

\* the loop is followed while it has kept few windows and start is not far
\* below 0
LoopFollowed == Len(ing.chunks) <= MaxKept /\ ing.start >= - MaxBack

\* _chunk_words, lines 61-69: the loop test and one pass of the body, or the
\* return when the test fails
ChunkWordsPass ==
    /\ ing.pc = "chunk_loop"
    /\ LoopFollowed
    /\ IF ~ (ing.start < Len(ing.words))
       THEN ing' = [ ing EXCEPT !.pc = "chunk_returned" ]
       ELSE LET end   == Min(ing.start + ing.size, Len(ing.words))
                chunk == Join(PySlice(ing.words, ing.start, end))
                kept  == IF Len(chunk) > MIN_CHUNK_CHARS
                         THEN Append(ing.chunks, chunk) ELSE ing.chunks
            IN  ing' = IF end = Len(ing.words)
                       THEN [ ing EXCEPT !.pc = "chunk_returned", !.chunks = kept ]
                       ELSE [ ing EXCEPT !.chunks = kept, !.odd = ~ @,
                                         !.start = ing.start + ing.size - ing.overlap ]
    /\ UNCHANGED << index, texts, metadata, top_k, constructed, bld, thr, log, started, published, ties, persistent, embedding_model, disk, origin, ctor, history >>

NextChunkLoop == ChunkWordsEnter \/ ChunkWordsPass

InitChunkLoop == InitIngest /\ ing \in ChunkLoopInputs

\* _chunk_words run pass by pass; a pass that can be taken is taken
SpecChunkLoop == InitChunkLoop /\ [][NextChunkLoop]_vars /\ WF_vars(NextChunkLoop)

\* config.DOCUMENT_NAMES.get(filename, filename)
DocumentNames(filename) ==
    IF filename = "Finscope-Final-Report__10_07_2024-1.pdf"
    THEN "Rwanda FinScope 2024 Report"
    ELSE filename

CSV_SOURCE_NAME == "IMF Financial Access Survey - Rwanda"

\* the entries a corpus directory may hold, in the order sorted() gives them
\* (upper case before lower case)
SortedNames ==
    << "Finscope-Final-Report__10_07_2024-1.pdf", "annex.PDF", "fas.csv", "notes.txt" >>

\* path.suffix.lower()
SuffixLower(name) ==
    CASE name = "Finscope-Final-Report__10_07_2024-1.pdf" -> ".pdf"
      [] name = "annex.PDF" -> ".pdf"
      [] name = "fas.csv"   -> ".csv"
      [] OTHER              -> ".txt"

\* a PDF page: extract_text raises, or yields the words of the cleaned text
FailingPage == [ fails |-> TRUE,  words |-> << >> ]
EmptyPage   == [ fails |-> FALSE, words |-> << >> ]
ShortPage   == [ fails |-> FALSE,
                 words |-> << "financial-inclusion-policy:",
                              "national-payment-system-oversight-report",
                              "abcdefghijklmnopqrstuvwxyz" >> ]
LongPage    == [ fails |-> FALSE, words |-> [ i \in 1 .. (CHUNK_SIZE + 50) |-> "w" ] ]

PageKinds == { FailingPage, EmptyPage, ShortPage, LongPage }

\* a CSV row under the header INDICATOR,COUNTRY,2020: its cells ("" is an
\* empty cell), and whether the line holds more fields than the header
FullRow      == [ indicator |-> "ATMs per 100,000 adults", country |-> "Rwanda",
                  y2020 |-> "5.4", extra |-> FALSE ]
SparseRow    == [ indicator |-> "ATMs", country |-> "", y2020 |-> "", extra |-> FALSE ]
MalformedRow == [ indicator |-> "Branches per 1,000 km2", country |-> "Rwanda",
                  y2020 |-> "2.1", extra |-> TRUE ]

RowKinds == { FullRow, SparseRow, MalformedRow }

\* what a directory entry may be: not there, not readable, or its content
Absent     == [ present |-> FALSE, readable |-> FALSE, pages |-> << >>, rows |-> << >> ]
Unreadable == [ present |-> TRUE,  readable |-> FALSE, pages |-> << >>, rows |-> << >> ]
PdfFile(ps) == [ present |-> TRUE, readable |-> TRUE, pages |-> ps, rows |-> << >> ]
CsvFile(rs) == [ present |-> TRUE, readable |-> TRUE, pages |-> << >>, rows |-> rs ]

\* the corpus directories considered: the report, the annex and the survey
\* may be there or not; notes.txt (no loader reads it) is always there
Directories ==
    { [ n \in Range(SortedNames) |->
          CASE n = SortedNames[1] -> x[1]
            [] n = SortedNames[2] -> x[2]
            [] n = SortedNames[3] -> x[3]
            [] OTHER              -> x[4] ] :
      x \in ({ Absent, Unreadable }
                \cup { PdfFile(ps) : ps \in UNION { [ 1 .. n -> PageKinds ] : n \in 1 .. MaxPages } })
            \X { Absent, PdfFile(<< ShortPage >>) }
            \X ({ Absent, Unreadable }
                \cup { CsvFile(rs) : rs \in UNION { [ 1 .. n -> RowKinds ] : n \in 1 .. MaxRows } })
            \X { Unreadable } }

\* corpus_dir.iterdir(): the entries that are there, in any order
Listings(dir) ==
    LET here == { n \in DOMAIN dir : dir[n].present }
    IN  { l \in [ 1 .. Cardinality(here) -> here ] :
            \A i, j \in DOMAIN l : i # j => l[i] # l[j] }

\* faulty variant of SortFiles: the entries are taken as iterdir yields them
SortFilesNot(listing) == [ i \in DOMAIN listing |-> listing[i] ]

\* sorted(corpus_dir.iterdir())
SortFiles(listing) ==
    SelectSeq(SortedNames, LAMBDA n : n \in Range(listing))

\* load_pdf, lines 86-98: the chunks of page page_no
PageChunks(name, page_no, page) ==
    IF page.fails \/ page.words = << >> THEN << >>
    ELSE LET cw == ChunkWords(page.words, CHUNK_SIZE, CHUNK_OVERLAP)
         IN  [ ci \in DOMAIN cw |->
                 DocumentChunk(cw[ci], DocumentNames(name), name, page_no, ci - 1, "pdf") ]

RECURSIVE LoadPages(_, _, _)
LoadPages(name, pages, page_no) ==
    IF page_no > Len(pages) THEN << >>
    ELSE PageChunks(name, page_no, pages[page_no]) \o LoadPages(name, pages, page_no + 1)

\* load_pdf: a file PdfReader cannot read yields no chunks; a page whose
\* extraction raises is skipped
LoadPdf(name, file) ==
    IF ~ file.readable THEN << >> ELSE LoadPages(name, file.pages, 1)

\* load_csv, lines 126-140: the text of a row
RowText(row) ==
    "Indicator: " \o row.indicator \o "\n  INDICATOR: " \o row.indicator
        \o (IF row.country # "" THEN "\n  COUNTRY: " \o row.country ELSE "")
        \o (IF row.y2020 # "" THEN "\n  Annual values: 2020=" \o row.y2020 ELSE "")

\* faulty variant of RowChunk: every row chunk is numbered 0
RowChunkNoIndex(name, idx, row) ==
    DocumentChunk(RowText(row), CSV_SOURCE_NAME, name, 0, 0, "csv")

\* load_csv, lines 142-150: the chunk of the row with index label idx
RowChunk(name, idx, row) ==
    DocumentChunk(RowText(row), CSV_SOURCE_NAME, name, 0, idx, "csv")

\* load_csv: pd.read_csv raises on a file it cannot read and on a line with
\* more fields than the header, and the one try around the whole function
\* turns that into no chunks; otherwise one chunk per row whose text is long
\* enough
LoadCsv(name, file) ==
    IF ~ file.readable \/ (\E i \in DOMAIN file.rows : file.rows[i].extra) THEN << >>
    ELSE SelectSeq([ i \in DOMAIN file.rows |-> RowChunk(name, i - 1, file.rows[i]) ],
                   LAMBDA c : Len(c.text) > MIN_ROW_CHARS)

\* load_corpus, lines 167-171: the loop over the sorted paths
RECURSIVE LoadPaths(_, _)
LoadPaths(paths, dir) ==
    IF paths = << >> THEN << >>
    ELSE LET name == Head(paths)
             got  == IF SuffixLower(name) = ".pdf" THEN LoadPdf(name, dir[name])
                     ELSE IF SuffixLower(name) = ".csv" THEN LoadCsv(name, dir[name])
                     ELSE << >>
         IN  got \o LoadPaths(Tail(paths), dir)

\* DocumentChunk.chunk_id: the key that is hashed (md5 taken as one-to-one)
ChunkId(c) == c.filename \o "|" \o ToString(c.page) \o "|" \o ToString(c.chunk_index)

\* the corpus directory dir is about to be loaded: no load has run yet
LoadInputs ==
    { [ pc |-> "load_call", dir |-> d, runs |-> << >>, paths |-> << >>, in_order |-> FALSE ] :
        d \in Directories }

\* load_corpus, line 167: sorted(corpus_dir.iterdir()); in_order tells
\* whether iterdir happened to yield the entries in sorted order
ListCorpus ==
    /\ ing.pc = "load_call"
    /\ Len(ing.runs) < MaxLoads
    /\ \E listing \in Listings(ing.dir) :
          ing' = [ ing EXCEPT !.pc = "load_loop",
                              !.paths = SortFiles(listing),
                              !.in_order = (listing = SortFiles(listing)) ]
    /\ UNCHANGED << index, texts, metadata, top_k, constructed, bld, thr, log, started, published, ties, persistent, embedding_model, disk, origin, ctor, history >>

\* load_corpus, lines 167-174: the loop over the paths, and the return
LoadCorpusLoop ==
    /\ ing.pc = "load_loop"
    /\ ing' = [ ing EXCEPT !.pc = "load_call", !.paths = << >>, !.in_order = FALSE,
                           !.runs = Append(@, [ in_order |-> ing.in_order,
                                                chunks |-> LoadPaths(ing.paths, ing.dir) ]) ]
    /\ UNCHANGED << index, texts, metadata, top_k, constructed, bld, thr, log, started, published, ties, persistent, embedding_model, disk, origin, ctor, history >>

NextLoad == ListCorpus \/ LoadCorpusLoop

InitLoad == InitIngest /\ ing \in LoadInputs

SpecLoad == InitLoad /\ [][NextLoad]_vars

\* ------------------------------------------------------------------ claims
\* retrieve, lines 134-160, run without interruption on the complete index
\* state s: the results it may return
RetrieveOn(s, q, k) ==
    IF IsEmpty(s.index) THEN { << >> }
    ELSE { [ i \in DOMAIN h |->
               RetrievedChunk(s.texts[h[i].idx + 1],
                              s.metadata[h[i].idx + 1].source_name,
                              s.metadata[h[i].idx + 1].filename,
                              s.metadata[h[i].idx + 1].page,
                              s.metadata[h[i].idx + 1].doc_type,
                              Round4(h[i].score)) ] :
           h \in SearchBuild(s.index.vecs, q, ClampK(k, s.index), ties) }

\* C1 (rebuild atomicity): a retrieve call that started on a built index and
\* ran while build_index rebuilt it returns what an uninterrupted retrieve
\* returns on the complete pre-rebuild index or on a complete post-rebuild
\* index; it does not raise, and it sees no empty or half-filled index.
C1_RebuildAtomicity ==
    \A t \in Callers :
        ( /\ thr[t].op = "retrieve"
          /\ thr[t].pc = "done"
          /\ \A s \in thr[t].snaps : ~ s.index.none )
        => /\ thr[t].outcome = "returned"
           /\ \E s \in thr[t].snaps :
                 thr[t].chunks \in RetrieveOn(s, thr[t].question, thr[t].k)

\* C2 (confidence gate): every chunk query hands from retrieve to generate
\* has similarity at or above the cutoff.
C2_ConfidenceGate ==
    \A t \in Callers :
        ( thr[t].op = "query" /\ thr[t].pc = "g_gen" )
        => \A i \in DOMAIN thr[t].chunks :
               thr[t].chunks[i].similarity >= SIMILARITY_CUTOFF

\* C3 (gate correctness): when every chunk passed to generate is below the
\* cutoff, generate returns the fallback sentence and no citation.
C3_GateCorrectness ==
    \A t \in Callers :
        ( /\ thr[t].op = "generate"
          /\ thr[t].pc = "done"
          /\ thr[t].outcome = "returned"
          /\ \A i \in DOMAIN thr[t].chunks :
                 thr[t].chunks[i].similarity < SIMILARITY_CUTOFF )
        => /\ thr[t].result.answer = FALLBACK_MESSAGE
           /\ thr[t].result.sources = << >>

\* C4 (no-evidence idempotence): every call generate(question, []) returns
\* the fallback sentence, no citation and zero token counts, and makes no
\* language-model call.
C4_NoEvidenceFallback ==
    \A t \in Callers :
        ( thr[t].op = "generate" /\ thr[t].pc = "done" /\ thr[t].chunks = << >> )
        => /\ thr[t].outcome = "returned"
           /\ thr[t].result.answer =
                 <<"The", "answer", "cannot", "be", "determined",
                   "from", "the", "provided", "documents.">>
           /\ thr[t].result.sources = << >>
           /\ thr[t].result.context_used = << >>
           /\ thr[t].result.input_tokens = 0
           /\ thr[t].result.output_tokens = 0
           /\ thr[t].llm_calls = 0
           /\ thr[t].llm = "none"

\* a generate(question, []) call has returned
C4_Witness ==
    \E t \in Callers :
        /\ thr[t].op = "generate" /\ thr[t].pc = "done" /\ thr[t].chunks = << >>
        /\ thr[t].outcome = "returned"
        /\ thr[t].question = "q2"

\* C5 (transport errors are not turned into the fallback): when the
\* language-model call of a query fails, the call raises the APIError, returns
\* no result and writes no audit record.
C5_TransportErrorRaised ==
    \A t \in Callers :
        ( thr[t].pc \in { "q_audit", "done" } /\ thr[t].llm = "failed" )
        => /\ thr[t].pc = "done"
           /\ thr[t].outcome = "raised"
           /\ thr[t].error = "APIError"
           /\ thr[t].result = NoResult
           /\ log = thr[t].log0

\* a query whose language-model call failed has ended
C5_Witness ==
    \E t \in Callers :
        /\ thr[t].op = "query" /\ thr[t].pc = "done"
        /\ thr[t].llm = "failed" /\ thr[t].llm_calls = 1
        /\ thr[t].chunks # << >>

\* C6 (citation soundness): every (source_name, page) pair in the sources a
\* generate call returns is the pair of a chunk passed to that call.
C6_CitationSoundness ==
    \A t \in Callers :
        ( thr[t].op = "generate" /\ thr[t].pc = "done" /\ thr[t].outcome = "returned" )
        => \A i \in DOMAIN thr[t].result.sources :
              \E j \in DOMAIN thr[t].chunks :
                 /\ thr[t].result.sources[i].source_name = thr[t].chunks[j].source_name
                 /\ thr[t].result.sources[i].page = thr[t].chunks[j].page

\* a generate call returned citations for a list of several chunks
C6_Witness ==
    \E t \in Callers :
        /\ thr[t].op = "generate" /\ thr[t].pc = "done" /\ thr[t].outcome = "returned"
        /\ Len(thr[t].chunks) >= 2
        /\ Len(thr[t].result.sources) >= 2

\* the positions of cs whose (source_name, page) pair occurs at no earlier one
FirstPositions(cs) ==
    { i \in DOMAIN cs :
        \A j \in 1 .. (i - 1) :
            << cs[j].source_name, cs[j].page >> # << cs[i].source_name, cs[i].page >> }

\* C7 (first-encounter deduplication): for a non-empty chunk list the sources
\* hold each distinct (source_name, page) pair once, in the order of the
\* first chunk that carries it, with that chunk's data, whatever the text
\* the model generated.
C7_FirstEncounterDedup ==
    \A t \in Callers :
        ( /\ thr[t].op = "generate" /\ thr[t].pc = "done"
          /\ thr[t].outcome = "returned" /\ thr[t].chunks # << >> )
        => LET cs == thr[t].chunks
               src == thr[t].result.sources
               firsts == FirstPositions(cs)
           IN  /\ Len(src) = Cardinality(firsts)
               /\ \A m \in DOMAIN src :
                     \E i \in firsts :
                        /\ Cardinality({ j \in firsts : j <= i }) = m
                        /\ src[m].source_name = cs[i].source_name
                        /\ src[m].page = cs[i].page
                        /\ src[m].doc_type = cs[i].doc_type
                        /\ src[m].similarity = cs[i].similarity

\* a generate call returned for a list whose first pair comes back after
\* another pair
C7_Witness ==
    \E t \in Callers :
        /\ thr[t].op = "generate" /\ thr[t].pc = "done" /\ thr[t].outcome = "returned"
        /\ Len(thr[t].chunks) = 3
        /\ thr[t].chunks[1].source_name = thr[t].chunks[3].source_name
        /\ thr[t].chunks[1].page = thr[t].chunks[3].page
        /\ thr[t].chunks[1].source_name # thr[t].chunks[2].source_name
        /\ Len(thr[t].result.sources) = 2

\* C8 (an audit write failure never fails the query): the step from
\* log_query to the return of query ends in a return of the result that
\* generate produced, unchanged; a failed append logs a warning.
C8_AuditFailureTolerated ==
    [][ \A t \in Callers :
          ( thr[t].pc = "q_audit" /\ thr'[t].pc = "done" )
          => /\ thr'[t].outcome = "returned"
             /\ thr'[t].error = "none"
             /\ thr'[t].result = thr[t].result
             /\ thr'[t].warned = (thr'[t].io # "ok") ]_vars

\* a query whose audit append failed has returned its result
C8_Witness ==
    \E t \in Callers :
        /\ thr[t].op = "query" /\ thr[t].pc = "done"
        /\ thr[t].io \in { "open_fails", "write_fails" }
        /\ thr[t].outcome = "returned"
        /\ thr[t].result.answer # FALLBACK_MESSAGE

\* the complete records of the log
CompleteRecords(lg) == { i \in DOMAIN lg : lg[i].complete }

\* C9 as stated (audit ordering, append-only): every query call that returned
\* a result has appended exactly one record for its question, built from the
\* finished result, to the log it found.
C9_Original ==
    \A t \in Callers :
        ( thr[t].op = "query" /\ thr[t].pc = "done" /\ thr[t].outcome = "returned" )
        => /\ Len(log) = Len(thr[t].log0) + 1
           /\ SubSeq(log, 1, Len(thr[t].log0)) = thr[t].log0
           /\ log[Len(log)].complete
           /\ log[Len(log)].question = thr[t].question

\* what a returned query has left in the log: the lines it found, followed by
\* its one record when the append succeeded, by nothing or a piece of a line
\* when it failed
C9_OneAppendPerQuery ==
    \A t \in Callers :
        ( thr[t].op = "query" /\ thr[t].pc = "done" /\ thr[t].outcome = "returned" )
        => /\ SubSeq(log, 1, Len(thr[t].log0)) = thr[t].log0
           /\ IF thr[t].io = "ok"
              THEN /\ Len(log) = Len(thr[t].log0) + 1
                   /\ log[Len(log)].complete
                   /\ log[Len(log)].question = thr[t].question
                   /\ log[Len(log)].num_chunks = Len(thr[t].chunks)
                   /\ log[Len(log)].input_tokens = thr[t].result.input_tokens
                   /\ log[Len(log)].output_tokens = thr[t].result.output_tokens
                   /\ Len(log[Len(log)].sources_retrieved) = Len(thr[t].result.sources)
              ELSE /\ thr[t].warned
                   /\ Len(log) <= Len(thr[t].log0) + 1
                   /\ CompleteRecords(log) = CompleteRecords(thr[t].log0)

\* C9 as amended: a returned query whose append succeeded has added exactly
\* one record for its question, built after retrieval and generation; one
\* whose append failed has added no complete record; and every step leaves
\* the lines already in the log in place, adding at most one.
C9_AuditAppendOnly ==
    /\ [] C9_OneAppendPerQuery
    /\ [][ /\ Len(log') >= Len(log)
           /\ Len(log') <= Len(log) + 1
           /\ SubSeq(log', 1, Len(log)) = log ]_vars

\* a second query has returned after appending its record behind the first
C9_Witness ==
    \E t \in Callers :
        /\ thr[t].op = "query" /\ thr[t].pc = "done" /\ thr[t].outcome = "returned"
        /\ thr[t].io = "ok"
        /\ Len(thr[t].log0) >= 1
        /\ Len(log) = Len(thr[t].log0) + 1
        /\ log[1].complete

\* C10 (top-k clamping): retrieve on an index of N chunks with k >= 1 returns
\* exactly min(k, N) results, each a different chunk of the index, and does
\* not raise; on an empty or not yet built index it returns the empty list.
C10_TopKClamped ==
    \A t \in Callers :
        ( thr[t].op = "retrieve" /\ thr[t].pc = "done" )
        => /\ thr[t].outcome = "returned"
           /\ thr[t].error = "none"
           /\ Len(thr[t].chunks) = Min(thr[t].k, Len(texts))
           /\ Len(texts) = (IF index.none THEN 0 ELSE Len(index.vecs))
           /\ \A i \in DOMAIN thr[t].chunks :
                 \E j \in DOMAIN texts :
                    /\ thr[t].chunks[i].text = texts[j]
                    /\ thr[t].chunks[i].page = metadata[j].page
                    /\ thr[t].chunks[i].source_name = metadata[j].source_name
           /\ \A i, j \in DOMAIN thr[t].chunks :
                 i # j => thr[t].chunks[i].text # thr[t].chunks[j].text
           /\ ( index.none => thr[t].chunks = << >> )

\* retrieve with k above the number of indexed chunks has returned them all
C10_Witness ==
    \E t \in Callers :
        /\ thr[t].op = "retrieve" /\ thr[t].pc = "done" /\ thr[t].outcome = "returned"
        /\ ~ index.none
        /\ Len(index.vecs) >= 1
        /\ thr[t].k > Len(index.vecs)
        /\ Len(thr[t].chunks) = Len(index.vecs)

\* the orchestrator's lifecycle, read off the program state: build_index is
\* running; or __init__ has returned; or neither
Indexing ==
    bld.pc \in { "called", "encoded", "created", "added", "texts", "meta", "index_saved" }

Phase ==
    IF Indexing THEN "Indexing"
    ELSE IF constructed THEN "Ready" ELSE "Uninitialized"

FullyBuilt ==
    /\ ~ IsEmpty(index)
    /\ Len(texts) = Len(index.vecs)
    /\ Len(metadata) = Len(index.vecs)
    /\ Snapshot(index, texts, metadata) = published

C11_QueryOnlyInReady ==
    \A t \in Callers :
        (thr[t].op = "query" /\ thr[t].pc # "idle") => (Phase = "Ready" /\ FullyBuilt)

C11_BuiltBeforeReady ==
    Phase = "Ready" => (FullyBuilt /\ ctor.called /\ (ctor.forced => ctor.built))

C11_Moves ==
    /\ (Phase = "Uninitialized" /\ Phase' = "Indexing")
          => (ctor'.called /\ (ctor'.forced \/ IsEmpty(index)))
    /\ (Phase = "Uninitialized" /\ Phase' = "Ready")
          => (~ ctor'.forced /\ ~ IsEmpty(index))
    /\ (Phase = "Ready" /\ Phase' = "Indexing")
          => (bld.pc = "idle" /\ bld'.pc = "called" /\ \A t \in Callers : thr[t].pc = "idle")
    /\ (Phase = "Indexing" /\ Phase' = "Ready")
          => (bld'.pc = "done" \/ (bld'.pc = "failed" /\ constructed))

C12_RebuildReplaces ==
    bld.pc = "done" =>
        /\ ~ index.none
        /\ Len(index.vecs) = Len(bld.chunks)
        /\ Len(texts) = Len(bld.chunks)
        /\ Len(metadata) = Len(bld.chunks)
        /\ \A i \in DOMAIN bld.chunks :
              /\ index.vecs[i] = Encode(<< bld.chunks[i].text >>)[1]
              /\ texts[i] = bld.chunks[i].text
              /\ metadata[i] = MetaOf(bld.chunks[i])

\* a rebuild has succeeded on a corpus smaller than the one indexed before
C12_Witness ==
    /\ bld.pc = "done"
    /\ ~ bld.old.index.none
    /\ Len(bld.old.index.vecs) > Len(bld.chunks)
    /\ constructed

\* C13 (zero chunks are fatal): when load_corpus returns no chunks,
\* build_index raises its ValueError without entering index_documents, and
\* the index, the texts and the metadata are as they were before the call.
C13_EmptyCorpusFatal ==
    (bld.pc \in { "failed", "encoded", "created", "added", "texts", "meta",
                  "index_saved", "done" }
            /\ bld.chunks = << >>) =>
        /\ bld.pc = "failed"
        /\ bld.error = "ValueError: No documents found"
        /\ ~ bld.indexing
        /\ Snapshot(index, texts, metadata) = bld.old

\* build_index has raised on an empty corpus while an index was in place
C13_Witness ==
    /\ bld.pc = "failed"
    /\ bld.chunks = << >>
    /\ ~ IsEmpty(index)

\* C18 (retrieval determinism): all retrieve calls with the same question and
\* the same k that were answered with no build_index between them returned
\* the same chunks, in the same order, with the same similarities.
C18_Determinism ==
    \A a, b \in history :
        (a.question = b.question /\ a.k = b.k) => a.chunks = b.chunks

\* a repeated retrieve call has returned two chunks of equal similarity
C18_Witness ==
    /\ thr[1].op = "retrieve" /\ thr[1].pc = "done" /\ thr[1].outcome = "returned"
    /\ thr[1].again
    /\ Len(thr[1].chunks) = 2
    /\ thr[1].chunks[1].similarity = thr[1].chunks[2].similarity

\* the corpus position (index position) of a returned chunk
PositionOf(c) == CHOOSE p \in DOMAIN texts : texts[p] = c.text

\* C19 (retrieval order): the chunks retrieve returns are in non-increasing
\* similarity order, and two returned chunks of equal similarity are in
\* corpus (index position) order.
C19_RetrievalOrder ==
    (thr[1].op = "retrieve" /\ thr[1].pc = "done" /\ thr[1].outcome = "returned") =>
        \A i, j \in DOMAIN thr[1].chunks :
            i < j =>
                /\ thr[1].chunks[i].similarity >= thr[1].chunks[j].similarity
                /\ thr[1].chunks[i].similarity = thr[1].chunks[j].similarity
                      => PositionOf(thr[1].chunks[i]) < PositionOf(thr[1].chunks[j])

\* the same, for a faiss build that puts the lower position first on equal
\* scores (the order the claim asks for)
C19_LowerFirstBuild == (ties = "lower_first") => C19_RetrievalOrder

\* C20 (retrieval is read-only): the index, the texts and the metadata change
\* only in a step of index_documents; no step of a retrieve or query call
\* changes them, and a call finds them at its end as they were at its start.
C20_OnlyBuildWrites ==
    (<< index, texts, metadata >>' # << index, texts, metadata >>)
        => (bld.pc \in { "encoded", "created", "added", "texts" } /\ bld'.pc # bld.pc)

C20_SameAsAtStart ==
    \A t \in Callers :
        thr[t].op \in { "retrieve", "query" } =>
            thr[t].snaps = { Snapshot(index, texts, metadata) }

C20_ReadOnly == []C20_SameAsAtStart /\ [][C20_OnlyBuildWrites]_vars

\* a query has retrieved chunks, been answered and returned
C20_Witness ==
    /\ thr[1].op = "query" /\ thr[1].pc = "done" /\ thr[1].outcome = "returned"
    /\ thr[1].chunks # << >>
    /\ Snapshot(index, texts, metadata) = published

\* the results query(q) may return when it runs alone on the built index
AloneResults(q) ==
    { QueryResult(GenerateOutcome(cs, llm).result, q, cs) :
        cs \in RetrieveOn(published, q, top_k), llm \in LLMResponses }

\* a query call of thread t has returned a result
QueryReturned(t) ==
    thr[t].op = "query" /\ thr[t].pc = "done" /\ thr[t].outcome = "returned"

\* the complete record of the finished call of thread t stands in the part
\* of the log written since the call began
OwnRecordIn(t) ==
    \E i \in (Len(thr[t].log0) + 1) .. Len(log) :
        log[i] = AuditRecord(thr[t].question, thr[t].result)

C17_AsIfAlone ==
    \A t \in Callers :
        QueryReturned(t) =>
            /\ thr[t].result \in AloneResults(thr[t].question)
            /\ thr[t].snaps = { Snapshot(index, texts, metadata) }

\* C17 as stated (concurrent queries are safe in Ready): of query calls that
\* run at the same time with no rebuild in progress, each returns a result it
\* could return when run alone, the index is unchanged, and each has appended
\* its one intact audit record.
C17_Original ==
    /\ C17_AsIfAlone
    /\ \A t \in Callers : QueryReturned(t) => OwnRecordIn(t)

\* the audit step of one call: a successful write appends exactly the whole
\* record of that call after everything already in the log; a failed write
\* adds no complete record; no other step touches the log
C17_OneWholeRecord ==
    /\ \A t \in Callers :
          (thr[t].pc = "q_audit" /\ thr'[t].pc = "done") =>
              IF thr'[t].io = "ok"
              THEN log' = Append(log, AuditRecord(thr[t].question, thr[t].result))
              ELSE /\ thr'[t].warned
                   /\ SubSeq(log', 1, Len(log)) = log
                   /\ { log'[i] : i \in CompleteRecords(log') }
                         = { log[i] : i \in CompleteRecords(log) }
                   /\ Cardinality(CompleteRecords(log')) = Cardinality(CompleteRecords(log))
    /\ (log' # log) => \E t \in Callers : thr[t].pc = "q_audit" /\ thr'[t].pc = "done"

\* C17 (concurrent queries are safe in Ready): of query calls that run at the
\* same time with no rebuild in progress, each returns a result it could
\* return when run alone and the index is unchanged; each call whose audit
\* write succeeds appends exactly one record, whole and after all earlier
\* lines, and a call whose write fails appends no complete record.
C17_ConcurrentQueries ==
    /\ [](C17_AsIfAlone /\ \A t \in Callers :
              (QueryReturned(t) /\ thr[t].io = "ok") => OwnRecordIn(t))
    /\ [][C17_OneWholeRecord]_vars

\* two query calls that overlapped have both returned and both logged
C17_Witness ==
    /\ QueryReturned(1) /\ QueryReturned(2)
    /\ thr[1].log0 = << >> /\ thr[2].log0 = << >>
    /\ thr[1].io = "ok" /\ thr[2].io = "ok"
    /\ Len(log) = 2
    /\ thr[1].chunks # << >>

\* the windows of n words for size W and overlap O: window j starts at word
\* offset j(W-O) and spans W words, the last is the first that reaches word n
WindowStart(j, size, overlap) == j * (size - overlap)

LastWindow(n, size, overlap) ==
    CHOOSE j \in 0 .. n :
        /\ WindowStart(j, size, overlap) + size >= n
        /\ \A i \in 0 .. (j - 1) : WindowStart(i, size, overlap) + size < n

Windows(words, size, overlap) ==
    [ j \in 1 .. (LastWindow(Len(words), size, overlap) + 1) |->
        Join(SubSeq(words, WindowStart(j - 1, size, overlap) + 1,
                    Min(WindowStart(j - 1, size, overlap) + size, Len(words)))) ]

Viable(chunk) == Len(chunk) > MIN_CHUNK_CHARS

\* C15 (word-window chunking): for a text of n words, window size W and
\* overlap O < W, _chunk_words returns, in order, exactly the windows starting
\* at 0, W-O, 2(W-O), ... (each W words long, the last one ending at word n)
\* whose joined length is not below the viability threshold (more than 80
\* characters).
C15_WordWindows ==
    ing.pc = "chunk_done" =>
        ing.out = IF ing.words = << >> THEN << >>
                  ELSE SelectSeq(Windows(ing.words, ing.size, ing.overlap), Viable)

\* a text cut into three or more overlapping windows, the last one shorter
\* and dropped for being too short
C15_Witness ==
    /\ ing.pc = "chunk_done"
    /\ ing.overlap > 0
    /\ LastWindow(Len(ing.words), ing.size, ing.overlap) >= 2
    /\ Len(ing.out) = LastWindow(Len(ing.words), ing.size, ing.overlap)
    /\ ~ Viable(Windows(ing.words, ing.size, ing.overlap)
                   [LastWindow(Len(ing.words), ing.size, ing.overlap) + 1])

\* C14 (chunk id stability): two runs of load_corpus on the same directory,
\* whatever order the directory lists its entries in, yield the same number
\* of chunks with the same (filename, page, chunk_index) and the same chunk
\* id at every position, and chunks with the same triple have the same id.
C14_ChunkIdStability ==
    ing.pc = "load_call" =>
        \A a, b \in DOMAIN ing.runs :
            /\ Len(ing.runs[a].chunks) = Len(ing.runs[b].chunks)
            /\ \A i \in DOMAIN ing.runs[a].chunks :
                  LET c == ing.runs[a].chunks[i]
                      d == ing.runs[b].chunks[i]
                  IN  /\ << c.filename, c.page, c.chunk_index >>
                            = << d.filename, d.page, d.chunk_index >>
                      /\ ChunkId(c) = ChunkId(d)
            /\ \A i \in DOMAIN ing.runs[a].chunks : \A j \in DOMAIN ing.runs[b].chunks :
                  LET c == ing.runs[a].chunks[i]
                      d == ing.runs[b].chunks[j]
                  IN  << c.filename, c.page, c.chunk_index >>
                          = << d.filename, d.page, d.chunk_index >>
                        => ChunkId(c) = ChunkId(d)

\* a directory with chunks from three files has been loaded twice, once from
\* a listing in sorted order and once from a listing in another order
C14_Witness ==
    /\ ing.pc = "load_call"
    /\ Len(ing.runs) = 2
    /\ ing.runs[1].in_order # ing.runs[2].in_order
    /\ Cardinality({ ing.runs[1].chunks[i].filename : i \in DOMAIN ing.runs[1].chunks }) = 3
    /\ \E i \in DOMAIN ing.runs[1].chunks : ing.runs[1].chunks[i].chunk_index = 1

\* C16 (ingestion failure isolation): a run of load_corpus returns the chunks
\* of every page whose extraction did not fail and of every well-formed row
\* of every readable PDF and CSV file of the directory, whatever pages, rows
\* or files beside them failed.
C16_FailureIsolation ==
    ing.pc = "load_call" =>
        \A r \in DOMAIN ing.runs : \A name \in DOMAIN ing.dir :
            LET file == ing.dir[name]
                got  == Range(ing.runs[r].chunks)
            IN  (file.present /\ file.readable) =>
                    /\ SuffixLower(name) = ".pdf" =>
                          \A p \in DOMAIN file.pages :
                              Range(PageChunks(name, p, file.pages[p])) \subseteq got
                    /\ SuffixLower(name) = ".csv" =>
                          \A i \in DOMAIN file.rows :
                              (~ file.rows[i].extra
                                    /\ Len(RowText(file.rows[i])) > MIN_ROW_CHARS)
                                  => RowChunk(name, i - 1, file.rows[i]) \in got

\* C21 (audit is_fallback flag): the record a query has just appended carries
\* is_fallback = TRUE exactly when the answer of that query begins with the
\* complete fallback sentence, and FALSE for every other answer, an answer
\* that shares only a shorter prefix with the sentence included.
C21_IsFallbackFlag ==
    ( thr[1].op = "query" /\ thr[1].pc = "done" /\ thr[1].outcome = "returned"
        /\ thr[1].io = "ok" )
    => log[Len(log)].is_fallback = IsPrefix(FALLBACK_MESSAGE, thr[1].result.answer)

\* C23 (no automatic retry in the core): a query call has made no
\* language-model call before generate runs, none when generate was given an
\* empty chunk list, and exactly one otherwise; a call that failed was made
\* once, and the query has raised its APIError.
C23_NoRetry ==
    \A t \in Callers :
        thr[t].op = "query" =>
            /\ thr[t].llm_calls =
                  IF thr[t].pc \in { "q_audit", "done" } /\ thr[t].chunks # << >>
                  THEN 1 ELSE 0
            /\ thr[t].llm = "failed" =>
                  /\ thr[t].llm_calls = 1
                  /\ thr[t].pc = "done"
                  /\ thr[t].outcome = "raised"
                  /\ thr[t].error = "APIError"

\* a query whose one language-model call failed has raised, after an earlier
\* query was answered with one call
C23_Witness ==
    /\ thr[1].op = "query" /\ thr[1].pc = "done" /\ thr[1].outcome = "raised"
    /\ thr[1].llm = "failed" /\ thr[1].llm_calls = 1
    /\ started = 2
    /\ Len(log) = 1 /\ log[1].complete /\ log[1].input_tokens > 0

\* C27 (a fallback answer never carries citations): when the answer of a
\* returned query is the fallback sentence, its citation list is empty, and
\* so is the source list of the audit record written for it, also when the
\* sentence was produced by the language model for a non-empty chunk list.
C27_FallbackWithoutCitations ==
    ( thr[1].op = "query" /\ thr[1].pc = "done" /\ thr[1].outcome = "returned"
        /\ thr[1].result.answer = FALLBACK_MESSAGE )
    => /\ thr[1].result.sources = << >>
       /\ thr[1].io = "ok" => log[Len(log)].sources_retrieved = << >>

\* a query call that has raised: nothing was added to the log it found, it
\* has no result, and the index is as it was when the call began
C29_FailedQuerySilent ==
    \A t \in Callers :
        ( thr[t].op = "query" /\ thr[t].pc = "done" /\ thr[t].outcome = "raised" )
        => /\ log = thr[t].log0
           /\ thr[t].result = NoResult
           /\ thr[t].snaps = { Snapshot(index, texts, metadata) }

\* one step: the number of complete records grows by the number of query
\* calls that return in this step with their audit write done
C29_RecordPerReturn ==
    Cardinality(CompleteRecords(log')) =
        Cardinality(CompleteRecords(log))
            + Cardinality({ t \in Callers :
                              /\ thr[t].op = "query" /\ thr[t].pc # "done"
                              /\ thr'[t].pc = "done" /\ thr'[t].outcome = "returned"
                              /\ thr'[t].io = "ok" })

\* C29 (a failed query leaves no audit trace and no state change): when
\* retrieval or generation raises during query, no record is appended for
\* that question and the index is unchanged; the number of audit records
\* equals the number of query calls that returned a result with their audit
\* write done (both are zero at the start and grow together).
C29_FailedQueryNoTrace ==
    /\ []C29_FailedQuerySilent
    /\ [][C29_RecordPerReturn]_vars

\* a query has raised after an earlier query with the same question was
\* answered and logged: the log still holds that one record
C29_Witness ==
    /\ thr[1].op = "query" /\ thr[1].pc = "done" /\ thr[1].outcome = "raised"
    /\ thr[1].log0 = log
    /\ Len(log) = 1 /\ log[1].complete
    /\ log[1].question = thr[1].question
    /\ ~ IsEmpty(index)

\* the (filename, page, chunk_index) triple of a chunk
Triple(c) == << c.filename, c.page, c.chunk_index >>

\* C30 (chunk identity is unique within a corpus load): any two chunks of one
\* load_corpus run differ in their (filename, page, chunk_index) triple and
\* in their chunk id key; the PDF chunks of a page are numbered 0, 1, 2, ...
\* without gaps in the order they were kept; a CSV chunk has page 0 and the
\* index of its row.
C30_ChunkIdentityUnique ==
    ing.pc = "load_call" =>
        \A r \in DOMAIN ing.runs :
            LET cs == ing.runs[r].chunks
            IN  /\ \A i, j \in DOMAIN cs :
                      i # j => /\ Triple(cs[i]) # Triple(cs[j])
                               /\ ChunkId(cs[i]) # ChunkId(cs[j])
                /\ \A i \in DOMAIN cs :
                      IF cs[i].doc_type = "pdf"
                      THEN /\ cs[i].page \in DOMAIN ing.dir[cs[i].filename].pages
                           /\ cs[i].chunk_index =
                                 Cardinality({ j \in 1 .. (i - 1) :
                                                 /\ cs[j].filename = cs[i].filename
                                                 /\ cs[j].page = cs[i].page })
                      ELSE /\ cs[i].page = 0
                           /\ (cs[i].chunk_index + 1) \in DOMAIN ing.dir[cs[i].filename].rows
                           /\ cs[i].text =
                                 RowText(ing.dir[cs[i].filename].rows[cs[i].chunk_index + 1])

\* a load has returned two chunks of one PDF page, chunks of two PDF files,
\* and the chunk of CSV row 1 while row 0 was too short to be kept
C30_Witness ==
    /\ ing.pc = "load_call"
    /\ Len(ing.runs) >= 1
    /\ LET cs == ing.runs[1].chunks
       IN  /\ \E i, j \in DOMAIN cs :
                 /\ cs[i].doc_type = "pdf" /\ cs[j].doc_type = "pdf"
                 /\ cs[i].filename = cs[j].filename /\ cs[i].page = cs[j].page
                 /\ cs[i].chunk_index = 0 /\ cs[j].chunk_index = 1
           /\ \E i, j \in DOMAIN cs :
                 cs[i].doc_type = "pdf" /\ cs[j].doc_type = "pdf"
                     /\ cs[i].filename # cs[j].filename
           /\ \E i \in DOMAIN cs : cs[i].doc_type = "csv" /\ cs[i].chunk_index = 1
           /\ ~ \E i \in DOMAIN cs : cs[i].doc_type = "csv" /\ cs[i].chunk_index = 0

\* C28 (chunking terminates): every call of _chunk_words with size >= 1 and
\* overlap >= 0, the overlap equal to or larger than the size included,
\* returns after finitely many passes of its loop (a loop that is followed
\* no further is not held against the statement).
C28_ChunkingTerminates == <>(ing.pc = "chunk_returned" \/ ~ LoopFollowed)

\* the same for the calls with the overlap below the size
C28_TerminatesBelowSize ==
    (ing.overlap < ing.size) => <>(ing.pc = "chunk_returned")

\* what a returned call has kept is what the windows of C15 give
C28_LoopAgreesWithWindows ==
    (ing.pc = "chunk_returned" /\ ing.overlap < ing.size) =>
        ing.chunks = ChunkWords(ing.words, ing.size, ing.overlap)

\* index_documents is between its first and its last assignment
Assigning == bld.pc \in { "created", "added", "texts" }

\* the chunk of the corpus that carries the text t
ChunkOfText(t) == CHOOSE d \in Range(FullCorpus) : d.text = t

\* C24 (index alignment): outside the assignments of a running
\* index_documents, whatever builds have completed or failed before, the
\* index, the text list and the metadata list have the same length and hold
\* at every position the vector, the text and the provenance of the chunk at
\* that position of the last completed build; every position a search has
\* returned lies in the three, and every chunk retrieve returns carries the
\* text and the provenance of one and the same chunk.
C24_IndexAlignment ==
    /\ ~ Assigning =>
          /\ ChunkCount(index) = Len(texts)
          /\ Len(metadata) = Len(texts)
          /\ Snapshot(index, texts, metadata) = published
          /\ \A i \in DOMAIN texts :
                /\ index.vecs[i] = Encode(<< texts[i] >>)[1]
                /\ metadata[i] = MetaOf(ChunkOfText(texts[i]))
          /\ bld.pc \in { "meta", "index_saved", "done" } =>
                /\ Len(texts) = Len(bld.chunks)
                /\ \A i \in DOMAIN bld.chunks :
                      /\ texts[i] = bld.chunks[i].text
                      /\ metadata[i] = MetaOf(bld.chunks[i])
    /\ \A t \in Callers :
          /\ thr[t].pc \in { "r_meta", "r_text" } =>
                \A i \in DOMAIN thr[t].hits :
                    thr[t].hits[i].idx >= 0 /\ thr[t].hits[i].idx < Len(texts)
          /\ thr[t].op = "retrieve" =>
                \A i \in DOMAIN thr[t].chunks :
                    LET c == thr[t].chunks[i]
                    IN  /\ \E p \in DOMAIN texts : texts[p] = c.text
                        /\ MetaOf(ChunkOfText(c.text)) =
                              [ source_name |-> c.source_name, filename |-> c.filename,
                                page |-> c.page, doc_type |-> c.doc_type ]

\* retrieve has returned two chunks of different documents from an index of
\* three chunks that index_documents built in this run
C24_Witness ==
    /\ thr[1].op = "retrieve" /\ thr[1].pc = "done" /\ thr[1].outcome = "returned"
    /\ origin.how = "built"
    /\ Len(texts) = 3
    /\ Len(thr[1].chunks) = 2
    /\ thr[1].chunks[1].filename # thr[1].chunks[2].filename

\* build_index has raised because the corpus gave no chunks or because the
\* embedding call raised
FailedEarly == bld.pc = "failed" /\ bld.error \in { "ValueError: No documents found", "encode" }

\* C25 (a failed rebuild leaves the published index unchanged): when
\* build_index has failed because the corpus yields no chunks or because the
\* embedding call raised, the index, the text list and the metadata list are
\* what they were before the call, and they still are when the caller goes
\* on to its next queries.
C25_FailedRebuildKeepsIndex ==
    /\ [](FailedEarly => /\ Snapshot(index, texts, metadata) = bld.old
                         /\ published = bld.old)
    /\ [][(FailedEarly /\ bld'.pc = "idle")
              => Snapshot(index', texts', metadata') = bld.old]_vars

\* a rebuild of a constructed pipeline has failed in the embedding call while
\* an index of two chunks was in place
C25_Witness ==
    /\ bld.pc = "failed" /\ bld.error = "encode"
    /\ constructed
    /\ Len(bld.chunks) = 3
    /\ ~ index.none /\ Len(index.vecs) = 2

\* the index in use holds vectors of another model than the one that embeds
\* the query
ModelMismatch == ~ index.none /\ origin.model # embedding_model

\* C22 (embedding identity mismatch is fatal): a retrieve call on an index
\* that was built, or loaded from disk, with another embedding model (or
\* dimension) than the one that embeds the query ends in an error and returns
\* no retrieval results.
C22_EmbeddingMismatchFatal ==
    \A t \in Callers :
        ( thr[t].op = "retrieve" /\ thr[t].pc = "done" /\ ModelMismatch )
        => /\ thr[t].outcome = "raised"
           /\ thr[t].chunks = << >>

\* the part that holds: with vectors of another dimension the search refuses
\* the query (an AssertionError at the time of the query)
C22_OtherDimensionRaises ==
    \A t \in Callers :
        ( thr[t].op = "retrieve" /\ thr[t].pc = "done" /\ ModelMismatch
            /\ Dim(origin.model) # Dim(embedding_model) )
        => thr[t].outcome = "raised" /\ thr[t].error = "AssertionError"

\* the retriever in use was read from the files and is aligned: as many
\* vectors as texts and as metadata entries
LoadedAligned ==
    origin.how = "loaded"
    => /\ ChunkCount(index) = Len(texts)
       /\ Len(metadata) = Len(texts)

\* C26 (persisted state consistency): whenever a new RAGRetriever is
\* constructed, also after a stop of the process or a failed write in the
\* middle of _save, a retriever loaded from the files has as many vectors as
\* texts and metadata entries; in ephemeral mode nothing is loaded and no
\* file is written.
C26_PersistedConsistency ==
    /\ [](LoadedAligned)
    /\ [](~ persistent => origin.how # "loaded")
    /\ [][~ persistent => disk' = disk]_vars

\* the part about the ephemeral mode, which holds
C26_EphemeralTouchesNoFile ==
    /\ [](~ persistent => origin.how \in { "empty", "built" })
    /\ [][~ persistent => disk' = disk]_vars

\* the other outcome of a write of _save that did not end: the next
\* construction of a RAGRetriever raises in _load
C26_ConstructorNeverRaises == origin.how # "load_failed"

====
